---------------------------- MODULE BloomShell_proofs -----------------------------
(***************************************************************************)
(* What bloom-shell keeps, for any library, any capacities and windows and *)
(* any sequence of buttons.  First the focus of bloom_ui_core.c and the    *)
(* lists the queries return; then the invariant, what a button does to     *)
(* focus, search, favorites and layers, and what each step of the reading  *)
(* does to the books kept of it.                                           *)
(***************************************************************************)
EXTENDS BloomShell, FiniteSetTheorems, TLAPS

Focus == [count : Nat, selected : Nat, start : Nat]

\* A focus is its three numbers.
LEMMA FocusFields ==
  ASSUME NEW f \in Focus
  PROVE  /\ f.count \in Nat /\ f.selected \in Nat /\ f.start \in Nat
         /\ f = [count |-> f.count, selected |-> f.selected, start |-> f.start]
  BY DEF Focus

\* reveal_selection brings any selection and any window back into the list.
THEOREM RevealShows ==
  ASSUME NEW f \in Focus, NEW rows \in Nat \ {0}
  PROVE  Reveal(f, rows) \in Focus /\ Visible(Reveal(f, rows), rows)
<1> DEFINE selected == Lesser(f.selected, f.count - 1)
           start == IF selected < f.start THEN selected
                    ELSE Greater(f.start, selected - rows + 1)
           top == Greater(f.count - rows, 0)
<1>1. f.count \in Nat /\ f.selected \in Nat /\ f.start \in Nat
  BY FocusFields
<1>2. CASE f.count = 0
  BY <1>2 DEF Reveal, Fresh, Visible, Focus
<1>3. CASE f.count # 0
  <2>1. selected \in 0..f.count - 1
    BY <1>1, <1>3 DEF Lesser
  <2>2. start \in Nat /\ start <= selected /\ selected < start + rows
    BY <1>1, <2>1 DEF Greater
  <2>3. top \in Nat /\ f.count <= top + rows
    BY <1>1 DEF Greater
  <2>4. Lesser(start, top) \in 0..top
    BY <2>2, <2>3 DEF Lesser
  <2>5. Lesser(start, top) <= selected /\ selected < Lesser(start, top) + rows
    <3>1. CASE start < top
      BY <2>2, <3>1 DEF Lesser
    <3>2. CASE ~(start < top)
      BY <1>1, <2>1, <2>2, <2>3, <3>2 DEF Lesser
    <3>3. QED
      BY <3>1, <3>2
  <2>6. Reveal(f, rows) = [count |-> f.count, selected |-> selected, start |-> Lesser(start, top)]
    BY <1>3 DEF Reveal
  <2> HIDE DEF selected, start, top
  <2>7. Lesser(start, top) \in Nat /\ selected \in Nat
    BY <1>1, <2>1, <2>3, <2>4
  <2>8. Reveal(f, rows) \in Focus
    BY <1>1, <2>6, <2>7 DEF Focus
  <2>9. Visible(Reveal(f, rows), rows)
    BY <1>3, <2>1, <2>4, <2>5, <2>6 DEF Visible, top
  <2>10. QED
    BY <2>8, <2>9
<1>4. QED
  BY <1>2, <1>3

\* A focus that is in order is left alone: nothing scrolls that need not.
THEOREM RevealKeeps ==
  ASSUME NEW f \in Focus, NEW rows \in Nat \ {0}, Visible(f, rows)
  PROVE  Reveal(f, rows) = f
<1>1. /\ f.count \in Nat /\ f.selected \in Nat /\ f.start \in Nat
      /\ f = [count |-> f.count, selected |-> f.selected, start |-> f.start]
  BY FocusFields
<1>2. CASE f.count = 0
  BY <1>2 DEF Reveal, Visible
<1>3. CASE f.count # 0
  <2>1. /\ f.selected \in 0..f.count - 1
        /\ f.start <= f.selected /\ f.selected < f.start + rows
        /\ f.start \in 0..Greater(f.count - rows, 0)
    BY <1>3 DEF Visible
  <2>2. Lesser(f.selected, f.count - 1) = f.selected
    BY <1>1, <2>1 DEF Lesser
  <2>3. Greater(f.start, f.selected - rows + 1) = f.start /\ ~(f.selected < f.start)
    BY <1>1, <2>1 DEF Greater
  <2>4. Lesser(f.start, Greater(f.count - rows, 0)) = f.start
    BY <1>1, <2>1 DEF Lesser, Greater
  <2>5. Reveal(f, rows) = [count |-> f.count, selected |-> f.selected, start |-> f.start]
    BY <1>3, <2>2, <2>3, <2>4 DEF Reveal
  <2>6. QED
    BY <1>1, <2>5
<1>4. QED
  BY <1>2, <1>3

\* A list may become any other.
THEOREM RecountShows ==
  ASSUME NEW f \in Focus, NEW n \in Nat, NEW rows \in Nat \ {0}
  PROVE  Recounted(f, n, rows) \in Focus /\ Visible(Recounted(f, n, rows), rows)
<1>1. [f EXCEPT !.count = n] \in Focus
  BY DEF Focus
<1>2. QED
  BY <1>1, RevealShows DEF Recounted

\* Steps of any length, held keys included, stop at the ends of the list.
THEOREM MoveShows ==
  ASSUME NEW f \in Focus, NEW distance \in Int, NEW rows \in Nat \ {0}, Visible(f, rows)
  PROVE  /\ Moved(f, distance, rows) \in Focus /\ Visible(Moved(f, distance, rows), rows)
         /\ Moved(f, distance, rows).count = f.count
<1> DEFINE to == Greater(0, Lesser(f.selected + distance, f.count - 1))
<1>1. f.count \in Nat /\ f.selected \in Nat /\ f.start \in Nat
  BY FocusFields
<1>2. CASE f.count = 0
  BY <1>2 DEF Moved
<1>3. CASE f.count # 0
  <2>1. to \in Nat
    BY <1>1 DEF Greater, Lesser
  <2> HIDE DEF to
  <2>2. [f EXCEPT !.selected = to] \in Focus
    BY <2>1 DEF Focus
  <2>3. [f EXCEPT !.selected = to].count = f.count
    BY DEF Focus
  <2>4. Moved(f, distance, rows) = Reveal([f EXCEPT !.selected = to], rows)
    BY <1>3 DEF Moved, to
  <2>5. Reveal([f EXCEPT !.selected = to], rows).count = f.count
    BY <1>3, <2>3 DEF Reveal
  <2>6. QED
    BY <2>2, <2>4, <2>5, RevealShows
<1>4. QED
  BY <1>2, <1>3

\* Where a step of any length ends up.
LEMMA MovedTo ==
  ASSUME NEW f \in Focus, NEW distance \in Int, NEW rows \in Nat \ {0}, f.count # 0
  PROVE  Moved(f, distance, rows).selected
           = Greater(0, Lesser(f.selected + distance, f.count - 1))
<1> DEFINE to == Greater(0, Lesser(f.selected + distance, f.count - 1))
<1>1. f.count \in Nat /\ f.selected \in Nat
  BY FocusFields
<1>2. to \in Nat /\ Lesser(to, f.count - 1) = to
  BY <1>1 DEF Greater, Lesser
<1> HIDE DEF to
<1>3. [f EXCEPT !.selected = to].count = f.count /\ [f EXCEPT !.selected = to].selected = to
  BY DEF Focus
<1>4. Moved(f, distance, rows) = Reveal([f EXCEPT !.selected = to], rows)
  BY DEF Moved, to
<1>5. Moved(f, distance, rows).selected = to
  BY <1>2, <1>3, <1>4 DEF Reveal
<1>6. QED
  BY <1>5 DEF to

\* PageUp and PageDown keep the selection in the window.  Unless it is on the
\* last entry that way, it moves, and by less than a window; where the window is
\* one row, by one entry.
THEOREM PageShows ==
  ASSUME NEW f \in Focus, NEW d \in {-1, 1}, NEW rows \in Nat \ {0}, Visible(f, rows)
  PROVE  /\ Paged(f, d, rows) \in Focus /\ Visible(Paged(f, d, rows), rows)
         /\ d = 1 /\ f.selected + 1 < f.count =>
              /\ Paged(f, d, rows).selected > f.selected
              /\ Paged(f, d, rows).selected <= f.selected + Greater(rows - 1, 1)
         /\ d = -1 /\ f.selected > 0 =>
              /\ Paged(f, d, rows).selected < f.selected
              /\ Paged(f, d, rows).selected >= f.selected - Greater(rows - 1, 1)
<1> DEFINE n == Greater(rows - 1, 1)
           to == Paged(f, d, rows).selected
<1>1. n \in Nat \ {0}
  BY DEF Greater
<1> HIDE DEF n
<1>2. d * n \in Int /\ (d = 1 => d * n = n) /\ (d = -1 => d * n = -n)
  BY <1>1
<1>3. Paged(f, d, rows) = Moved(f, d * n, rows)
  BY DEF Paged, n
<1>4. Paged(f, d, rows) \in Focus /\ Visible(Paged(f, d, rows), rows)
  BY <1>2, <1>3, MoveShows
<1>5. f.count \in Nat /\ f.selected \in Nat /\ (f.count # 0 => f.selected < f.count)
  BY FocusFields DEF Visible
<1>6. f.count # 0 => to = Greater(0, Lesser(f.selected + d * n, f.count - 1))
  BY <1>2, <1>3, MovedTo
<1> HIDE DEF to
<1>7. ASSUME d = 1, f.selected + 1 < f.count
      PROVE  to > f.selected /\ to <= f.selected + n
  <2>1. f.count # 0 /\ d * n = n
    BY <1>2, <1>5, <1>7
  <2>2. to = Greater(0, Lesser(f.selected + n, f.count - 1))
    BY <1>6, <2>1
  <2>3. QED
    BY <1>1, <1>5, <1>7, <2>2 DEF Greater, Lesser
<1>8. ASSUME d = -1, f.selected > 0
      PROVE  to < f.selected /\ to >= f.selected - n
  <2>1. f.count # 0 /\ d * n = -n
    <3>1. f.count = 0 => f = Fresh(0)
      BY DEF Visible
    <3>2. f.count # 0
      BY <1>8, <3>1 DEF Fresh
    <3>3. QED
      BY <1>2, <1>8, <3>2
  <2>2. to = Greater(0, Lesser(f.selected - n, f.count - 1))
    BY <1>1, <1>5, <1>6, <2>1
  <2>3. QED
    BY <1>1, <1>5, <1>8, <2>1, <2>2 DEF Greater, Lesser
<1>9. QED
  BY <1>4, <1>7, <1>8 DEF n, to

\* Sets of natural numbers have a least element.
LEMMA LeastNatural ==
  ASSUME NEW T \in SUBSET Nat, T # {}
  PROVE  \E m \in T : \A k \in T : m <= k
<1> DEFINE Up == {0..n : n \in T}
<1>1. Up \subseteq FiniteSubsetsOf(Nat)
  <2> SUFFICES ASSUME NEW n \in T PROVE 0..n \in FiniteSubsetsOf(Nat)
    OBVIOUS
  <2>1. IsFiniteSet(0..n)
    BY FS_Interval
  <2>2. QED
    BY <2>1 DEF FiniteSubsetsOf
<1>2. PICK U \in Up : \A V \in Up : ~(<<V, U>> \in StrictSubsetOrdering(Nat))
  <2> HIDE DEF Up
  <2>1. Up # {}
    BY DEF Up
  <2>2. IsWellFoundedOn(StrictSubsetOrdering(Nat), FiniteSubsetsOf(Nat))
    BY FS_StrictSubsetOrderingWellFounded
  <2>3. QED
    BY <1>1, <2>1, <2>2, WFMin
<1>3. PICK m \in T : U = 0..m
  OBVIOUS
<1>4. ASSUME NEW k \in T, k < m
      PROVE  FALSE
  <2>1. 0..k \subseteq 0..m /\ 0..k # 0..m /\ 0..m \in SUBSET Nat /\ 0..k \in SUBSET Nat
    <3>1. m \in 0..m /\ m \notin 0..k
      BY <1>4
    <3>2. QED
      BY <1>4, <3>1
  <2>2. <<0..k, 0..m>> \in StrictSubsetOrdering(Nat)
    BY <2>1 DEF StrictSubsetOrdering
  <2>3. QED
    BY <1>2, <1>3, <2>2
<1>5. QED
  BY <1>4

\* Induction, of a set.
LEMMA SetInduction ==
  ASSUME NEW S, 0 \in S, \A n \in Nat : n \in S => n + 1 \in S
  PROVE  Nat \subseteq S
<1> SUFFICES ASSUME Nat \ S # {}
             PROVE  FALSE
  OBVIOUS
<1>1. PICK m \in Nat \ S : \A k \in Nat \ S : m <= k
  BY LeastNatural
<1>2. m # 0 /\ m - 1 \in Nat /\ m - 1 \in S
  <2>1. m # 0
    OBVIOUS
  <2>2. m - 1 \in Nat /\ ~(m <= m - 1)
    BY <2>1
  <2>3. QED
    BY <1>1, <2>1, <2>2
<1>3. QED
  BY <1>2

\* f starts as a, and each of its N steps is one of step.
Unfolds(f, A, a, N, step) ==
  f \in [0..N -> A] /\ f[0] = a /\ \A i \in 1..N : f[i] = step[<<f[i - 1], i>>]

\* A function on 0..N is given by its first value and its steps.
LEMMA Recursion ==
  ASSUME NEW A, NEW a \in A, NEW N \in Nat, NEW step \in [A \X (1..N) -> A]
  PROVE  \E f : Unfolds(f, A, a, N, step)
<1> DEFINE IsUpTo(f, n) == /\ f \in [0..n -> A] /\ f[0] = a
                           /\ \A i \in 1..n : f[i] = step[<<f[i - 1], i>>]
           S == {n \in Nat : n <= N => \E f \in [0..n -> A] : IsUpTo(f, n)}
<1>1. 0 \in S
  <2>1. [i \in 0..0 |-> a] \in [0..0 -> A]
    OBVIOUS
  <2>2. IsUpTo([i \in 0..0 |-> a], 0)
    OBVIOUS
  <2>3. QED
    BY <2>1, <2>2
<1>2. ASSUME NEW n \in Nat, n \in S
      PROVE  n + 1 \in S
  <2> SUFFICES ASSUME n + 1 <= N
               PROVE  \E f \in [0..n + 1 -> A] : IsUpTo(f, n + 1)
    OBVIOUS
  <2>1. PICK f \in [0..n -> A] : IsUpTo(f, n)
    BY <1>2
  <2> DEFINE g == [i \in 0..n + 1 |-> IF i = n + 1 THEN step[<<f[n], n + 1>>] ELSE f[i]]
  <2>2. step[<<f[n], n + 1>>] \in A
    <3>1. f[n] \in A /\ n + 1 \in 1..N
      BY <2>1
    <3>2. QED
      BY <3>1
  <2>3. g \in [0..n + 1 -> A]
    BY <2>1, <2>2
  <2>4. g[0] = a
    BY <2>1
  <2>5. ASSUME NEW i \in 1..n + 1
        PROVE  g[i] = step[<<g[i - 1], i>>]
    <3>1. CASE i = n + 1
      <4>1. g[i] = step[<<f[n], n + 1>>] /\ g[n] = f[n]
        BY <3>1
      <4>2. i - 1 = n
        BY <3>1
      <4>3. QED
        BY <3>1, <4>1, <4>2
    <3>2. CASE i # n + 1
      <4>1. i \in 1..n /\ i - 1 \in 0..n /\ i - 1 # n + 1
        BY <3>2
      <4>2. g[i] = f[i] /\ g[i - 1] = f[i - 1]
        BY <3>2, <4>1
      <4>3. QED
        BY <2>1, <4>1, <4>2
    <3>3. QED
      BY <3>1, <3>2
  <2>6. QED
    BY <2>3, <2>4, <2>5
<1>3. N \in S
  <2> HIDE DEF S
  <2>1. Nat \subseteq S
    BY <1>1, <1>2, SetInduction
  <2>2. QED
    BY <2>1
<1>4. QED
  BY <1>3 DEF Unfolds

\* Kept and Loaded with the function whose last value they are.
KeptUpTo(list, S) ==
  LET upTo[i \in 0..Len(list)] ==
        IF i = 0 THEN <<>>
        ELSE IF list[i] \in S THEN Append(upTo[i - 1], list[i]) ELSE upTo[i - 1]
  IN upTo

TotalUpTo(entries) ==
  LET upTo[i \in 0..Len(entries)] ==
        IF i = 0 THEN 0 ELSE upTo[i - 1] + Len(entries[i].games)
  IN upTo

\* What is kept is what is kept up to the end.
LEMMA KeptIsLast ==
  ASSUME NEW list, NEW S
  PROVE  Kept(list, S) = KeptUpTo(list, S)[Len(list)]
BY DEF Kept, KeptUpTo

\* The games counted are those of all entries.
LEMMA LoadedIsTotal == Loaded = TotalUpTo(catalog)[Len(catalog)]
BY DEF Loaded, TotalUpTo

\* So they are after a step.
LEMMA LoadedNext == (Loaded = TotalUpTo(catalog)[Len(catalog)])'
BY LoadedIsTotal, PTL

\* The recursion of KeptUpTo has a solution, which adds a place at a time.
LEMMA KeptSteps ==
  ASSUME NEW X, NEW s \in Seq(X), NEW S
  PROVE  /\ KeptUpTo(s, S) \in [0..Len(s) -> Seq(X)]
         /\ KeptUpTo(s, S)[0] = <<>>
         /\ \A i \in 1..Len(s) : KeptUpTo(s, S)[i] =
              IF s[i] \in S THEN Append(KeptUpTo(s, S)[i - 1], s[i]) ELSE KeptUpTo(s, S)[i - 1]
<1> DEFINE N == Len(s)
           A == Seq(X)
           empty == <<>>
           longer(r, i) == IF s[i] \in S THEN Append(r, s[i]) ELSE r
           step == [p \in A \X (1..N) |-> longer(p[1], p[2])]
           Solves(f) == f = [i \in 0..N |-> IF i = 0 THEN empty ELSE longer(f[i - 1], i)]
<1>1. N \in Nat /\ empty \in A /\ \A r \in A, i \in 1..N : longer(r, i) \in A
  <2>1. N \in Nat /\ empty \in A /\ \A i \in 1..N : s[i] \in X
    OBVIOUS
  <2>2. QED
    BY <2>1
<1>2. KeptUpTo(s, S) = CHOOSE f : Solves(f)
  BY DEF KeptUpTo
<1> HIDE DEF N, A, empty, longer
<1>3. step \in [A \X (1..N) -> A]
  BY <1>1
<1>4. PICK f : Unfolds(f, A, empty, N, step)
  <2> HIDE DEF step
  <2>1. N \in Nat /\ empty \in A
    BY <1>1
  <2>2. QED
    BY <2>1, <1>3, Recursion
<1>5. \A i \in 1..N : f[i] = longer(f[i - 1], i)
  <2> SUFFICES ASSUME NEW i \in 1..N
               PROVE  f[i] = longer(f[i - 1], i)
    OBVIOUS
  <2>1. f[i - 1] \in A
    BY <1>1, <1>4 DEF Unfolds
  <2>2. QED
    BY <1>4, <2>1 DEF Unfolds
<1>6. Solves(f)
  BY <1>1, <1>4, <1>5 DEF Unfolds
<1>7. Solves(KeptUpTo(s, S))
  <2> HIDE DEF Solves
  <2>1. QED
    BY <1>2, <1>6
<1> DEFINE g == KeptUpTo(s, S)
<1>8. g[0] = empty /\ \A i \in 1..N : g[i] = longer(g[i - 1], i)
  <2> HIDE DEF g
  <2>1. QED
    BY <1>1, <1>7 DEF g
<1>9. g \in [0..N -> A]
  <2> DEFINE T == {n \in Nat : n <= N => g[n] \in A}
  <2>1. 0 \in T
    <3> HIDE DEF g
    <3>1. QED
      BY <1>1, <1>8
  <2>2. ASSUME NEW n \in Nat, n \in T
        PROVE  n + 1 \in T
    <3> HIDE DEF g
    <3> SUFFICES ASSUME n + 1 <= N
                 PROVE  g[n + 1] \in A
      OBVIOUS
    <3>1. g[n] \in A /\ n + 1 \in 1..N /\ (n + 1) - 1 = n
      BY <1>1, <2>2
    <3>2. QED
      BY <1>1, <1>8, <3>1
  <2>3. Nat \subseteq T
    <3> HIDE DEF T
    <3>1. QED
      BY <2>1, <2>2, SetInduction
  <2>4. \A n \in 0..N : g[n] \in A
    <3> HIDE DEF g
    <3>1. QED
      BY <1>1, <2>3
  <2>5. g = [i \in 0..N |-> g[i]]
    <3> HIDE DEF g
    <3>1. QED
      BY <1>7 DEF g
  <2>6. QED
    BY <2>4, <2>5
<1>10. QED
  BY <1>8, <1>9 DEF N, A, empty, longer

\* The recursion of TotalUpTo has a solution, which adds an entry at a time.
LEMMA TotalSteps ==
  ASSUME NEW s, Len(s) \in Nat, \A i \in 1..Len(s) : Len(s[i].games) \in Nat
  PROVE  /\ TotalUpTo(s) \in [0..Len(s) -> Nat]
         /\ TotalUpTo(s)[0] = 0
         /\ \A i \in 1..Len(s) : TotalUpTo(s)[i] = TotalUpTo(s)[i - 1] + Len(s[i].games)
<1> DEFINE N == Len(s)
           size(i) == Len(s[i].games)
           step == [p \in Nat \X (1..N) |-> p[1] + size(p[2])]
           Solves(f) == f = [i \in 0..N |-> IF i = 0 THEN 0 ELSE f[i - 1] + size(i)]
<1>1. N \in Nat /\ \A i \in 1..N : size(i) \in Nat
  OBVIOUS
<1>2. TotalUpTo(s) = CHOOSE f : Solves(f)
  BY DEF TotalUpTo
<1> HIDE DEF N, size
<1>3. step \in [Nat \X (1..N) -> Nat]
  BY <1>1
<1>4. PICK f : Unfolds(f, Nat, 0, N, step)
  <2> HIDE DEF step
  <2>1. QED
    BY <1>1, <1>3, Recursion
<1>5. \A i \in 1..N : f[i] = f[i - 1] + size(i)
  <2> SUFFICES ASSUME NEW i \in 1..N
               PROVE  f[i] = f[i - 1] + size(i)
    OBVIOUS
  <2>1. f[i - 1] \in Nat
    BY <1>1, <1>4 DEF Unfolds
  <2>2. QED
    BY <1>4, <2>1 DEF Unfolds
<1>6. Solves(f)
  BY <1>1, <1>4, <1>5 DEF Unfolds
<1>7. Solves(TotalUpTo(s))
  <2> HIDE DEF Solves
  <2>1. QED
    BY <1>2, <1>6
<1> DEFINE g == TotalUpTo(s)
<1>8. g[0] = 0 /\ \A i \in 1..N : g[i] = g[i - 1] + size(i)
  <2> HIDE DEF g
  <2>1. QED
    BY <1>1, <1>7 DEF g
<1>9. g \in [0..N -> Nat]
  <2> DEFINE T == {n \in Nat : n <= N => g[n] \in Nat}
  <2> HIDE DEF g
  <2>1. 0 \in T
    BY <1>1, <1>8
  <2>2. ASSUME NEW n \in Nat, n \in T
        PROVE  n + 1 \in T
    <3> SUFFICES ASSUME n + 1 <= N
                 PROVE  g[n + 1] \in Nat
      OBVIOUS
    <3>1. g[n] \in Nat /\ n + 1 \in 1..N /\ (n + 1) - 1 = n
      BY <1>1, <2>2
    <3>2. QED
      BY <1>1, <1>8, <3>1
  <2>3. Nat \subseteq T
    <3> HIDE DEF T
    <3>1. QED
      BY <2>1, <2>2, SetInduction
  <2>4. \A n \in 0..N : g[n] \in Nat
    BY <1>1, <2>3
  <2>5. g = [i \in 0..N |-> g[i]]
    BY <1>7 DEF g
  <2>6. QED
    BY <2>4, <2>5
<1>10. QED
  BY <1>8, <1>9 DEF N, size

\* An entry adds its games to the total.
LEMMA TotalAppend ==
  ASSUME NEW E, NEW s \in Seq(E), NEW e \in E, \A x \in E : Len(x.games) \in Nat
  PROVE  TotalUpTo(Append(s, e))[Len(Append(s, e))] = TotalUpTo(s)[Len(s)] + Len(e.games)
<1> DEFINE t == Append(s, e)
           f == TotalUpTo(s)
           g == TotalUpTo(t)
           T == {n \in Nat : n <= Len(s) => g[n] = f[n]}
<1>1. /\ Len(s) \in Nat /\ Len(t) = Len(s) + 1 /\ t[Len(s) + 1] = e
      /\ \A i \in 1..Len(s) : t[i] = s[i] /\ s[i] \in E
  OBVIOUS
<1> HIDE DEF t
<1>2. f[0] = 0 /\ \A i \in 1..Len(s) : f[i] = f[i - 1] + Len(s[i].games)
  <2>1. \A i \in 1..Len(s) : Len(s[i].games) \in Nat
    BY <1>1
  <2>2. QED
    BY <1>1, <2>1, TotalSteps
<1>3. g[0] = 0 /\ \A i \in 1..Len(t) : g[i] = g[i - 1] + Len(t[i].games)
  <2>1. \A i \in 1..Len(t) : Len(t[i].games) \in Nat
    BY <1>1
  <2>2. QED
    BY <1>1, <2>1, TotalSteps
<1> HIDE DEF f, g
<1>4. 0 \in T
  BY <1>2, <1>3
<1>5. ASSUME NEW n \in Nat, n \in T
      PROVE  n + 1 \in T
  <2> SUFFICES ASSUME n + 1 <= Len(s)
               PROVE  g[n + 1] = f[n + 1]
    OBVIOUS
  <2>1. n + 1 \in 1..Len(s) /\ n + 1 \in 1..Len(t) /\ (n + 1) - 1 = n /\ g[n] = f[n]
    BY <1>1, <1>5
  <2>2. QED
    BY <1>1, <1>2, <1>3, <2>1
<1>6. Nat \subseteq T
  <2> HIDE DEF T
  <2>1. QED
    BY <1>4, <1>5, SetInduction
<1>7. g[Len(s)] = f[Len(s)]
  BY <1>1, <1>6
<1>8. Len(t) \in 1..Len(t) /\ Len(t) - 1 = Len(s)
  BY <1>1
<1>9. QED
  BY <1>1, <1>3, <1>7, <1>8 DEF t, f, g

\* at says which places of s the places of r are: in order, all those up to n
\* whose values are in S.
Picks(at, r, s, S, n) ==
  /\ at \in [1..Len(r) -> 1..n]
  /\ \A i, j \in 1..Len(r) : i < j => at[i] < at[j]
  /\ \A i \in 1..Len(r) : r[i] = s[at[i]] /\ r[i] \in S
  /\ \A k \in 1..n : s[k] \in S => \E i \in 1..Len(r) : at[i] = k

\* Kept keeps the values of S that are there, in their order.
LEMMA KeptPicks ==
  ASSUME NEW X, NEW s \in Seq(X), NEW S
  PROVE  /\ Kept(s, S) \in Seq(X)
         /\ \E at : Picks(at, Kept(s, S), s, S, Len(s))
<1> DEFINE N == Len(s)
           g == KeptUpTo(s, S)
           T == {n \in Nat : n <= N => \E at : Picks(at, g[n], s, S, n)}
<1>1. N \in Nat /\ \A i \in 1..N : s[i] \in X
  OBVIOUS
<1>2. /\ g \in [0..N -> Seq(X)] /\ g[0] = <<>>
      /\ \A i \in 1..N : g[i] = IF s[i] \in S THEN Append(g[i - 1], s[i]) ELSE g[i - 1]
  BY KeptSteps
<1> HIDE DEF N, g
<1>3. 0 \in T
  <2>1. Picks(<<>>, g[0], s, S, 0)
    BY <1>2 DEF Picks
  <2>2. QED
    BY <2>1
<1>4. ASSUME NEW n \in Nat, n \in T
      PROVE  n + 1 \in T
  <2> SUFFICES ASSUME n + 1 <= N
               PROVE  \E at : Picks(at, g[n + 1], s, S, n + 1)
    OBVIOUS
  <2>1. PICK at : Picks(at, g[n], s, S, n)
    BY <1>1, <1>4
  <2>2. /\ n + 1 \in 1..N /\ (n + 1) - 1 = n /\ g[n] \in Seq(X)
        /\ g[n + 1] = IF s[n + 1] \in S THEN Append(g[n], s[n + 1]) ELSE g[n]
    <3>1. n + 1 \in 1..N /\ (n + 1) - 1 = n /\ n \in 0..N
      BY <1>1
    <3>2. g[n + 1] = IF s[n + 1] \in S THEN Append(g[(n + 1) - 1], s[n + 1]) ELSE g[(n + 1) - 1]
      BY <1>2, <3>1
    <3>3. QED
      BY <1>2, <3>1, <3>2
  <2> DEFINE r == g[n]
             R == g[n + 1]
             m == Len(r)
             places == [i \in 1..m + 1 |-> IF i = m + 1 THEN n + 1 ELSE at[i]]
  <2>3. m \in Nat
    BY <2>2
  <2>4. /\ at \in [1..m -> 1..n]
        /\ \A i, j \in 1..m : i < j => at[i] < at[j]
        /\ \A i \in 1..m : r[i] = s[at[i]] /\ r[i] \in S
        /\ \A k \in 1..n : s[k] \in S => \E i \in 1..m : at[i] = k
    BY <2>1 DEF Picks
  <2>5. CASE s[n + 1] \notin S
    <3>1. R = r /\ Len(R) = m
      BY <2>2, <2>5
    <3> HIDE DEF R, r, m
    <3>2. at \in [1..m -> 1..n + 1]
      BY <2>3, <2>4
    <3>3. \A k \in 1..n + 1 : s[k] \in S => \E i \in 1..m : at[i] = k
      BY <2>4, <2>5
    <3>4. Picks(at, R, s, S, n + 1)
      BY <2>4, <3>1, <3>2, <3>3 DEF Picks
    <3>5. QED
      BY <3>4 DEF R
  <2>6. CASE s[n + 1] \in S
    <3>1. R = Append(r, s[n + 1])
      BY <2>2, <2>6
    <3>2. Len(R) = m + 1 /\ R[m + 1] = s[n + 1] /\ \A i \in 1..m : R[i] = r[i]
      BY <1>1, <2>2, <3>1
    <3> HIDE DEF R, r, m
    <3>3. \A i \in 1..m : i \in 1..m + 1 /\ i # m + 1 /\ at[i] \in 1..n
      BY <2>3, <2>4
    <3>4. places[m + 1] = n + 1 /\ \A i \in 1..m : places[i] = at[i]
      BY <2>3, <3>3
    <3>5. \A i \in 1..m + 1 : i = m + 1 \/ i \in 1..m
      BY <2>3
    <3>6. places \in [1..m + 1 -> 1..n + 1]
      BY <2>3, <3>3
    <3> HIDE DEF places
    <3>7. ASSUME NEW i \in 1..m + 1, NEW j \in 1..m + 1, i < j
          PROVE  places[i] < places[j]
      <4>1. i \in 1..m
        BY <2>3, <3>7
      <4>2. places[i] = at[i] /\ at[i] \in 1..n
        BY <3>3, <3>4, <4>1
      <4>3. CASE j = m + 1
        BY <3>4, <4>2, <4>3
      <4>4. CASE j \in 1..m
        BY <2>4, <3>4, <3>7, <4>1, <4>4
      <4>5. QED
        BY <3>5, <4>3, <4>4
    <3>8. ASSUME NEW i \in 1..m + 1
          PROVE  R[i] = s[places[i]] /\ R[i] \in S
      BY <2>4, <2>6, <3>2, <3>4, <3>5
    <3>9. ASSUME NEW k \in 1..n + 1, s[k] \in S
          PROVE  \E i \in 1..m + 1 : places[i] = k
      <4>1. CASE k = n + 1
        <5>1. m + 1 \in 1..m + 1
          BY <2>3
        <5>2. QED
          BY <3>4, <4>1, <5>1
      <4>2. CASE k # n + 1
        <5>1. k \in 1..n
          BY <4>2
        <5>2. PICK i \in 1..m : at[i] = k
          BY <2>4, <3>9, <5>1
        <5>3. QED
          BY <3>3, <3>4, <5>2
      <4>3. QED
        BY <4>1, <4>2
    <3>10. Picks(places, R, s, S, n + 1)
      BY <3>2, <3>6, <3>7, <3>8, <3>9 DEF Picks
    <3>11. QED
      BY <3>10 DEF R
  <2>7. QED
    BY <2>5, <2>6
<1>5. Nat \subseteq T
  <2> HIDE DEF T
  <2>1. QED
    BY <1>3, <1>4, SetInduction
<1>6. \E at : Picks(at, g[N], s, S, N)
  BY <1>1, <1>5
<1>7. Kept(s, S) = g[N] /\ g[N] \in Seq(X)
  BY <1>1, <1>2, KeptIsLast DEF g, N
<1>8. QED
  BY <1>6, <1>7 DEF N

\* What Kept says of members, repetitions and order.
LEMMA KeptFacts ==
  ASSUME NEW X, NEW s \in Seq(X), NEW S
  PROVE  /\ Kept(s, S) \in Seq(X)
         /\ Range(Kept(s, S)) = Range(s) \cap S
         /\ IsInjective(s) => IsInjective(Kept(s, S))
         /\ \A g, h : Before(Kept(s, S), g, h) => Before(s, g, h)
         /\ \A g, h \in S : Before(s, g, h) => Before(Kept(s, S), g, h)
<1> DEFINE r == Kept(s, S)
<1>1. PICK at : Picks(at, r, s, S, Len(s))
  BY KeptPicks
<1>2. r \in Seq(X) /\ Len(r) \in Nat /\ DOMAIN r = 1..Len(r)
  <2>1. r \in Seq(X)
    BY KeptPicks
  <2> HIDE DEF r
  <2>2. QED
    BY <2>1
<1>3. Len(s) \in Nat /\ DOMAIN s = 1..Len(s)
  OBVIOUS
<1> HIDE DEF r
<1>4. /\ \A i \in 1..Len(r) : at[i] \in 1..Len(s) /\ r[i] = s[at[i]] /\ r[i] \in S
      /\ \A i, j \in 1..Len(r) : i < j => at[i] < at[j]
      /\ \A k \in 1..Len(s) : s[k] \in S => \E i \in 1..Len(r) : at[i] = k
  BY <1>1 DEF Picks
<1>5. Range(r) = Range(s) \cap S
  <2>1. Range(r) \subseteq Range(s) \cap S
    BY <1>2, <1>3, <1>4 DEF Range
  <2>2. ASSUME NEW x \in Range(s) \cap S
        PROVE  x \in Range(r)
    <3>1. PICK k \in 1..Len(s) : s[k] = x
      BY <1>3 DEF Range
    <3>2. PICK i \in 1..Len(r) : at[i] = k
      BY <1>4, <3>1
    <3>3. QED
      BY <1>2, <1>4, <3>1, <3>2 DEF Range
  <2>3. QED
    BY <2>1, <2>2
<1>6. ASSUME IsInjective(s)
      PROVE  IsInjective(r)
  <2>1. ASSUME NEW i \in 1..Len(r), NEW j \in 1..Len(r), r[i] = r[j]
        PROVE  i = j
    <3>1. at[i] = at[j] /\ at[i] \in Int
      BY <1>3, <1>4, <1>6, <2>1 DEF IsInjective
    <3>2. ~(i < j) /\ ~(j < i)
      BY <1>4, <3>1
    <3>3. QED
      BY <3>2
  <2>2. QED
    BY <1>2, <2>1 DEF IsInjective
<1>7. ASSUME NEW g, NEW h, Before(r, g, h)
      PROVE  Before(s, g, h)
  <2>1. PICK i \in 1..Len(r), j \in 1..Len(r) : i < j /\ r[i] = g /\ r[j] = h
    BY <1>2, <1>7 DEF Before
  <2>2. /\ at[i] \in 1..Len(s) /\ at[j] \in 1..Len(s) /\ at[i] < at[j]
        /\ s[at[i]] = g /\ s[at[j]] = h
    BY <1>4, <2>1
  <2>3. QED
    BY <1>3, <2>2 DEF Before
<1>8. ASSUME NEW g \in S, NEW h \in S, Before(s, g, h)
      PROVE  Before(r, g, h)
  <2>1. PICK k \in 1..Len(s), l \in 1..Len(s) : k < l /\ s[k] = g /\ s[l] = h
    BY <1>3, <1>8 DEF Before
  <2>2. PICK i \in 1..Len(r) : at[i] = k
    BY <1>4, <2>1
  <2>3. PICK j \in 1..Len(r) : at[j] = l
    BY <1>4, <2>1
  <2>4. r[i] = g /\ r[j] = h
    BY <1>4, <2>1, <2>2, <2>3
  <2>5. i < j
    <3>1. i # j /\ ~(j < i)
      BY <1>4, <2>1, <2>2, <2>3
    <3>2. QED
      BY <3>1
  <2>6. QED
    BY <1>2, <2>4, <2>5 DEF Before
<1>9. QED
  BY <1>2, <1>5, <1>6, <1>7, <1>8 DEF r

\* The places Kept picks and what it keeps are one selection: the places of a
\* list that hold values of H, and these values.
LEMMA PlacesPoint ==
  ASSUME NEW X, NEW s \in Seq(X), NEW H
  PROVE  LET places == Kept([i \in 1..Len(s) |-> i], {i \in 1..Len(s) : s[i] \in H})
         IN  /\ places \in Seq(1..Len(s))
             /\ [i \in DOMAIN places |-> s[places[i]]] = Kept(s, H)
<1> DEFINE N == Len(s)
           all == [i \in 1..N |-> i]
           I == {i \in 1..N : s[i] \in H}
           p == KeptUpTo(all, I)
           g == KeptUpTo(s, H)
           Same(q, r) == /\ q \in Seq(1..N) /\ r \in Seq(X) /\ Len(q) = Len(r)
                         /\ \A i \in 1..Len(q) : r[i] = s[q[i]]
           T == {n \in Nat : n <= N => Same(p[n], g[n])}
<1>1. N \in Nat /\ \A i \in 1..N : s[i] \in X
  OBVIOUS
<1>2. all \in Seq(1..N) /\ Len(all) = N /\ \A i \in 1..N : all[i] = i
  BY <1>1
<1> HIDE DEF N, all
<1>3. /\ p \in [0..N -> Seq(1..N)] /\ p[0] = <<>>
      /\ \A i \in 1..N : p[i] = IF s[i] \in H THEN Append(p[i - 1], i) ELSE p[i - 1]
  <2> HIDE DEF I
  <2>1. /\ p \in [0..N -> Seq(1..N)] /\ p[0] = <<>>
        /\ \A i \in 1..N : p[i] = IF all[i] \in I THEN Append(p[i - 1], all[i]) ELSE p[i - 1]
    BY <1>2, KeptSteps
  <2>2. \A i \in 1..N : all[i] = i /\ (i \in I <=> s[i] \in H)
    BY <1>2 DEF I
  <2> HIDE DEF p
  <2>3. QED
    BY <2>1, <2>2
<1>4. /\ g \in [0..N -> Seq(X)] /\ g[0] = <<>>
      /\ \A i \in 1..N : g[i] = IF s[i] \in H THEN Append(g[i - 1], s[i]) ELSE g[i - 1]
  BY KeptSteps DEF N
<1> HIDE DEF p, g
<1>5. 0 \in T
  BY <1>1, <1>3, <1>4
<1>6. ASSUME NEW n \in Nat, n \in T
      PROVE  n + 1 \in T
  <2> SUFFICES ASSUME n + 1 <= N
               PROVE  Same(p[n + 1], g[n + 1])
    OBVIOUS
  <2>1. /\ Same(p[n], g[n]) /\ n + 1 \in 1..N /\ (n + 1) - 1 = n /\ s[n + 1] \in X
    BY <1>1, <1>6
  <2>2. CASE s[n + 1] \notin H
    <3>1. p[n + 1] = p[n] /\ g[n + 1] = g[n]
      BY <1>3, <1>4, <2>1, <2>2
    <3>2. QED
      BY <2>1, <3>1
  <2>3. CASE s[n + 1] \in H
    <3>1. p[n + 1] = Append(p[n], n + 1) /\ g[n + 1] = Append(g[n], s[n + 1])
      BY <1>3, <1>4, <2>1, <2>3
    <3> DEFINE q == p[n]
               r == g[n]
    <3>2. Same(q, r)
      BY <2>1
    <3> HIDE DEF q, r
    <3>3. Append(q, n + 1) \in Seq(1..N) /\ Append(r, s[n + 1]) \in Seq(X)
      BY <2>1, <3>2
    <3>4. Len(Append(q, n + 1)) = Len(q) + 1 /\ Len(Append(r, s[n + 1])) = Len(q) + 1
      BY <2>1, <3>2
    <3>5. ASSUME NEW i \in 1..Len(q) + 1
          PROVE  Append(r, s[n + 1])[i] = s[Append(q, n + 1)[i]]
      <4>1. CASE i = Len(q) + 1
        BY <2>1, <3>2, <4>1
      <4>2. CASE i # Len(q) + 1
        <5>1. i \in 1..Len(q)
          BY <3>2, <4>2
        <5>2. Append(r, s[n + 1])[i] = r[i] /\ Append(q, n + 1)[i] = q[i]
          BY <2>1, <3>2, <5>1
        <5>3. QED
          BY <3>2, <5>1, <5>2
      <4>3. QED
        BY <4>1, <4>2
    <3>6. QED
      BY <3>1, <3>3, <3>4, <3>5 DEF q, r
  <2>4. QED
    BY <2>2, <2>3
<1>7. Nat \subseteq T
  <2> HIDE DEF T
  <2>1. QED
    BY <1>5, <1>6, SetInduction
<1>8. Same(p[N], g[N])
  BY <1>1, <1>7
<1>9. Kept(all, I) = p[N] /\ Kept(s, H) = g[N]
  BY <1>2, KeptIsLast DEF p, g, N
<1> DEFINE places == p[N]
           values == g[N]
<1>10. [i \in DOMAIN places |-> s[places[i]]] = values
  <2> HIDE DEF places, values
  <2>1. Same(places, values)
    BY <1>8 DEF places, values
  <2>2. DOMAIN places = 1..Len(places) /\ DOMAIN values = 1..Len(places)
    BY <2>1
  <2>3. values = [i \in 1..Len(places) |-> values[i]]
    BY <2>1, <2>2
  <2>4. QED
    BY <2>1, <2>2, <2>3
<1>11. QED
  BY <1>8, <1>9, <1>10 DEF all, I, N

-----------------------------------------------------------------------------
(* The inductive invariant                                                  *)

Entries == [system : Systems, games : Seq(Games)]

\* The sequences and records TypeOK speaks of are what they look like.
DataTypes ==
  /\ listed \in SUBSET Games /\ throughout \in SUBSET listed
  /\ stored \in Seq(Games) /\ history \in Seq(Games)
  /\ favorites \in Seq(Games) /\ recents \in Seq(Games)
  /\ left \in Seq(Systems) /\ cursor \in Games \cup {None}
  /\ checked \in BOOLEAN /\ taken \in Seq(Games)
  /\ catalog \in Seq(Entries)

ViewTypes ==
  /\ focus \in [Lists -> Focus]
  /\ search \in [query : Seq(Chars), active : BOOLEAN, from : Lists \cup {NoList},
                 results : Seq(Nat)]
  /\ action \in [game : Games \cup {None}, recent : BOOLEAN]

\* The systems that were read, and their games, are in the order of the queries.
CatalogInOrder ==
  /\ \A i, j \in DOMAIN catalog : i < j => Row(catalog[i].system) < Row(catalog[j].system)
  /\ \A e \in Range(catalog) :
       /\ \A g \in Range(e.games) : SystemOf[g] = e.system
       /\ \A i, j \in DOMAIN e.games : i < j => Place(e.games[i]) < Place(e.games[j])

\* Nothing is read before its turn.
NotBegun == phase \in {"recents", "favorites", "systems"} =>
  catalog = <<>> /\ taken = <<>> /\ cursor = None /\ checked = FALSE

\* Nothing is open or searched before the shell is ready.
NotShown == phase \in {"recents", "favorites", "systems", "games"} =>
  search = NoSearch /\ layers \subseteq {"firstRun"} /\ system = 1

\* The systems left are in order and behind those that were read; what was
\* taken of the first of them is in order too, up to the cursor, and fits.
PagesInOrder == phase = "games" =>
  /\ \A i, j \in DOMAIN left : i < j => Row(left[i]) < Row(left[j])
  /\ \A e \in Range(catalog), s \in Range(left) : Row(e.system) < Row(s)
  /\ Range(left) \subseteq Range(queried)
  /\ \A e \in Range(catalog) : e.system \in Range(queried)
  /\ Loaded <= GameCapacity
  /\ checked => left # <<>> /\ Loaded < GameCapacity
  /\ cursor = None <=> taken = <<>>
  /\ taken # <<>> => left # <<>> /\ Loaded + Len(taken) < GameCapacity
  /\ \A g \in Range(taken) : SystemOf[g] = left[1] /\ Place(g) <= Place(cursor)
  /\ \A i, j \in DOMAIN taken : i < j => Place(taken[i]) < Place(taken[j])

\* A game yet to come: of the system being read and behind the cursor, or of a
\* later system.
Ahead(g) == \E i \in DOMAIN left : left[i] = SystemOf[g] /\ (i = 1 => After(cursor, g))

Beyond(g) == Loaded = GameCapacity /\ \A h \in CatalogGames : Precedes(h, g)

\* No game that was there all the time is passed over.
NoneLost == phase = "games" =>
  \A g \in throughout : SystemOf[g] \in Playable =>
    g \in CatalogGames \/ g \in Range(taken) \/ Ahead(g) \/ Beyond(g) \/ Unqueried(g)

\* The favorites from when they were loaded on.
FavoritesKept ==
  /\ IsInjective(stored)
  /\ phase \in {"systems", "games", "ready"} =>
       /\ IsInjective(favorites)
       /\ Range(stored) \ unloaded \subseteq Range(favorites)
       /\ Range(favorites) \subseteq Range(stored)
       /\ \A g, h \in Range(favorites) \ unloaded :
            Before(favorites, g, h) => Before(stored, g, h)

\* What is open belongs to what is under it.
LayersFit == phase = "ready" =>
  /\ "remove" \in layers => "actions" \in layers
  /\ "actions" \in layers => action.game \in Games
  /\ "search" \in layers => destination \in GameLists
  /\ continue => recents # <<>>

\* An applied search is of the list of its destination, or it was carried to
\* Settings.
SearchFits == phase = "ready" /\ search.active =>
  /\ destination \in GameLists \cup {"settings"}
  /\ destination \in GameLists => search.from = Source

\* All rows of Settings are listed.
SettingsListed == phase = "ready" => focus["settings"].count = Len(Settings)

\* Where the queries have a system or a game.
LEMMA RowFacts ==
  /\ \A s \in Systems : Row(s) \in DOMAIN SystemOrder /\ SystemOrder[Row(s)] = s
  /\ \A i \in DOMAIN SystemOrder : Row(SystemOrder[i]) = i
<1>1. SystemOrder \in Seq(Systems) /\ Range(SystemOrder) = Systems /\ IsInjective(SystemOrder)
  BY ShellAssumption
<1>2. ASSUME NEW s \in Systems
      PROVE  Row(s) \in DOMAIN SystemOrder /\ SystemOrder[Row(s)] = s
  <2>1. \E i \in DOMAIN SystemOrder : SystemOrder[i] = s
    BY <1>1 DEF Range
  <2>2. QED
    BY <2>1 DEF Row
<1>3. ASSUME NEW i \in DOMAIN SystemOrder
      PROVE  Row(SystemOrder[i]) = i
  <2>1. SystemOrder[i] \in Systems
    BY <1>1
  <2>2. QED
    BY <1>1, <1>2, <2>1 DEF IsInjective
<1>4. QED
  BY <1>2, <1>3

\* Where the queries have a game.
LEMMA PlaceFacts ==
  /\ \A g \in Games : Place(g) \in DOMAIN GameOrder /\ GameOrder[Place(g)] = g
  /\ \A i \in DOMAIN GameOrder : Place(GameOrder[i]) = i
<1>1. GameOrder \in Seq(Games) /\ Range(GameOrder) = Games /\ IsInjective(GameOrder)
  BY ShellAssumption
<1>2. ASSUME NEW g \in Games
      PROVE  Place(g) \in DOMAIN GameOrder /\ GameOrder[Place(g)] = g
  <2>1. \E i \in DOMAIN GameOrder : GameOrder[i] = g
    BY <1>1 DEF Range
  <2>2. QED
    BY <2>1 DEF Place
<1>3. ASSUME NEW i \in DOMAIN GameOrder
      PROVE  Place(GameOrder[i]) = i
  <2>1. GameOrder[i] \in Games
    BY <1>1
  <2>2. QED
    BY <1>1, <1>2, <2>1 DEF IsInjective
<1>4. QED
  BY <1>2, <1>3

\* Rows and places are numbers; no two games share a place.
LEMMA PlacesAreInt ==
  /\ \A s \in Systems : Row(s) \in Int
  /\ \A g \in Games : Place(g) \in Int
  /\ \A g, h \in Games : Place(g) = Place(h) => g = h
<1>1. DOMAIN SystemOrder \subseteq Int /\ DOMAIN GameOrder \subseteq Int
  BY ShellAssumption
<1>2. QED
  BY <1>1, RowFacts, PlaceFacts

\* The systems a query returns are in the order of their rows.
LEMMA SystemsInOrder ==
  ASSUME NEW S
  PROVE  /\ Kept(SystemOrder, S) \in Seq(Systems)
         /\ Range(Kept(SystemOrder, S)) = Systems \cap S
         /\ \A i, j \in DOMAIN Kept(SystemOrder, S) :
              i < j => Row(Kept(SystemOrder, S)[i]) < Row(Kept(SystemOrder, S)[j])
<1> DEFINE r == Kept(SystemOrder, S)
<1>1. SystemOrder \in Seq(Systems) /\ Range(SystemOrder) = Systems
  BY ShellAssumption
<1>2. /\ r \in Seq(Systems) /\ Range(r) = Systems \cap S
      /\ \A s, t : Before(r, s, t) => Before(SystemOrder, s, t)
  BY <1>1, KeptFacts
<1> HIDE DEF r
<1>3. ASSUME NEW i \in DOMAIN r, NEW j \in DOMAIN r, i < j
      PROVE  Row(r[i]) < Row(r[j])
  <2>1. Before(r, r[i], r[j])
    BY <1>3 DEF Before
  <2>2. PICK k \in DOMAIN SystemOrder, l \in DOMAIN SystemOrder :
          k < l /\ SystemOrder[k] = r[i] /\ SystemOrder[l] = r[j]
    BY <1>2, <2>1 DEF Before
  <2>3. Row(SystemOrder[k]) = k /\ Row(SystemOrder[l]) = l
    BY RowFacts
  <2>4. QED
    BY <2>2, <2>3
<1>4. QED
  BY <1>2, <1>3 DEF r

\* The games a query returns are in the order of their titles.
LEMMA GamesInOrder ==
  ASSUME NEW S
  PROVE  /\ Kept(GameOrder, S) \in Seq(Games)
         /\ Range(Kept(GameOrder, S)) = Games \cap S
         /\ \A i, j \in DOMAIN Kept(GameOrder, S) :
              i < j => Place(Kept(GameOrder, S)[i]) < Place(Kept(GameOrder, S)[j])
<1> DEFINE r == Kept(GameOrder, S)
<1>1. GameOrder \in Seq(Games) /\ Range(GameOrder) = Games
  BY ShellAssumption
<1>2. /\ r \in Seq(Games) /\ Range(r) = Games \cap S
      /\ \A s, t : Before(r, s, t) => Before(GameOrder, s, t)
  BY <1>1, KeptFacts
<1> HIDE DEF r
<1>3. ASSUME NEW i \in DOMAIN r, NEW j \in DOMAIN r, i < j
      PROVE  Place(r[i]) < Place(r[j])
  <2>1. Before(r, r[i], r[j])
    BY <1>3 DEF Before
  <2>2. PICK k \in DOMAIN GameOrder, l \in DOMAIN GameOrder :
          k < l /\ GameOrder[k] = r[i] /\ GameOrder[l] = r[j]
    BY <1>2, <2>1 DEF Before
  <2>3. Place(GameOrder[k]) = k /\ Place(GameOrder[l]) = l
    BY PlaceFacts
  <2>4. QED
    BY <2>2, <2>3
<1>4. QED
  BY <1>2, <1>3 DEF r

\* What the dispatch finds on top is open and nothing before it is.
LEMMA OnTopFacts ==
  ASSUME layers \subseteq Range(Priority)
  PROVE  /\ OnTop # "page" => OnTop \in layers
         /\ OnTop = "page" => layers = {}
         /\ OnTop = "actions" => "remove" \notin layers
         /\ OnTop = "quick" => "search" \notin layers
<1> DEFINE First(i) == Priority[i] \in layers /\ \A j \in 1..i - 1 : Priority[j] \notin layers
           first == CHOOSE i \in DOMAIN Priority : First(i)
<1>1. /\ DOMAIN Priority \subseteq Nat \ {0}
      /\ \A i \in DOMAIN Priority : Priority[i] # "page"
      /\ \A i \in DOMAIN Priority : Priority[i] = "actions" => i = 4
      /\ \A i \in DOMAIN Priority : Priority[i] = "quick" => i = 9
      /\ DOMAIN Priority = 1..10 /\ Priority[3] = "remove" /\ Priority[8] = "search"
  BY DEF Priority
<1>2. CASE layers = {}
  BY <1>2 DEF OnTop
<1>3. CASE layers # {}
  <2>1. OnTop = Priority[first]
    BY <1>3 DEF OnTop
  <2>2. \E i \in DOMAIN Priority : First(i)
    <3> DEFINE T == {i \in DOMAIN Priority : Priority[i] \in layers}
    <3>1. T # {} /\ T \subseteq Nat
      BY <1>1, <1>3 DEF Range
    <3> HIDE DEF T
    <3>2. PICK m \in T : \A k \in T : m <= k
      BY <3>1, LeastNatural
    <3>3. m \in DOMAIN Priority /\ m \in 1..10 /\ Priority[m] \in layers
      BY <1>1 DEF T
    <3>4. ASSUME NEW j \in 1..m - 1
          PROVE  Priority[j] \notin layers
      <4>1. j \in DOMAIN Priority /\ ~(m <= j)
        BY <1>1, <3>3
      <4>2. QED
        BY <3>2, <4>1 DEF T
    <3>5. QED
      BY <3>3, <3>4
  <2>3. first \in DOMAIN Priority /\ First(first)
    BY <2>2
  <2> HIDE DEF first
  <2>4. OnTop # "page" /\ OnTop \in layers
    BY <1>1, <2>1, <2>3
  <2>5. OnTop = "actions" => "remove" \notin layers
    <3>1. first = 4 => 3 \in 1..first - 1
      OBVIOUS
    <3>2. QED
      BY <1>1, <2>1, <2>3, <3>1
  <2>6. OnTop = "quick" => "search" \notin layers
    <3>1. first = 9 => 8 \in 1..first - 1
      OBVIOUS
    <3>2. QED
      BY <1>1, <2>1, <2>3, <3>1
  <2>7. QED
    BY <2>4, <2>5, <2>6
<1>4. QED
  BY <1>2, <1>3

-----------------------------------------------------------------------------
(* What is listed and selected                                             *)

\* What the catalog holds.
LEMMA CatalogEntries ==
  ASSUME catalog \in Seq(Entries)
  PROVE  /\ \A e \in Range(catalog) : e \in Entries /\ e.system \in Systems /\ e.games \in Seq(Games)
         /\ \A i \in DOMAIN catalog : catalog[i] \in Range(catalog)
<1>1. \A i \in DOMAIN catalog : catalog[i] \in Entries
  OBVIOUS
<1>2. Range(catalog) = {catalog[i] : i \in DOMAIN catalog}
  BY DEF Range
<1>3. \A e \in Entries : e.system \in Systems /\ e.games \in Seq(Games)
  BY DEF Entries
<1>4. QED
  BY <1>1, <1>2, <1>3

\* The games of a system are its entry of the catalog's, if it has one.
LEMMA GamesOfTypes ==
  ASSUME catalog \in Seq(Entries), NEW s
  PROVE  GamesOf(s) \in Seq(Games)
<1>1. \A e \in Range(catalog) : e.games \in Seq(Games)
  BY CatalogEntries
<1>2. CASE \E e \in Range(catalog) : e.system = s
  <2>1. (CHOOSE e \in Range(catalog) : e.system = s) \in Range(catalog)
    BY <1>2
  <2>2. QED
    BY <1>1, <1>2, <2>1 DEF GamesOf
<1>3. CASE ~(\E e \in Range(catalog) : e.system = s)
  BY <1>3 DEF GamesOf
<1>4. QED
  BY <1>2, <1>3

\* The games of a system that was read are those of its entry.
LEMMA GamesOfEntry ==
  ASSUME catalog \in Seq(Entries), CatalogInOrder, NEW e \in Range(catalog)
  PROVE  GamesOf(e.system) = e.games
<1> DEFINE c == CHOOSE x \in Range(catalog) : x.system = e.system
<1>1. c \in Range(catalog) /\ c.system = e.system
  OBVIOUS
<1> HIDE DEF c
<1>2. PICK i \in DOMAIN catalog, j \in DOMAIN catalog : catalog[i] = c /\ catalog[j] = e
  BY <1>1 DEF Range
<1>3. i \in Int /\ j \in Int /\ Row(e.system) \in Int
  <2>1. e.system \in Systems
    BY CatalogEntries
  <2>2. QED
    BY <1>2, <2>1, PlacesAreInt
<1>4. ~(i < j) /\ ~(j < i)
  BY <1>1, <1>2, <1>3 DEF CatalogInOrder
<1>5. c = e
  BY <1>2, <1>3, <1>4
<1>6. GamesOf(e.system) = c.games
  BY DEF GamesOf, c
<1>7. QED
  BY <1>5, <1>6

\* A list of games is a list of games.
LEMMA ContentsTypes ==
  ASSUME catalog \in Seq(Entries), NEW favs \in Seq(Games), NEW recs \in Seq(Games), NEW list
  PROVE  Contents(list, favs, recs) \in Seq(Games)
<1>1. GamesOf(list) \in Seq(Games)
  BY GamesOfTypes
<1>2. <<>> \in Seq(Games)
  OBVIOUS
<1> DEFINE games == GamesOf(list)
<1> HIDE DEF games
<1>3. Contents(list, favs, recs) = CASE list = "favorites" -> favs
    [] list = "recent" -> recs
    [] list = NoList -> <<>>
    [] OTHER -> games
  BY DEF Contents, games
<1>4. games \in Seq(Games)
  BY <1>1 DEF games
<1>5. QED
  BY <1>2, <1>3, <1>4

\* None of the names of the other lists is a system's.
LEMMA NamesDiffer ==
  /\ \A l \in OtherLists : l \notin Systems
  /\ NoList \notin Lists
  /\ \A s \in Systems : s \in Lists /\ s # NoList
<1>1. OtherLists \cap Systems = {} /\ NoList \notin Systems
  BY ShellAssumption
<1>2. NoList \notin OtherLists
  BY DEF NoList, OtherLists
<1>3. QED
  BY <1>1, <1>2 DEF Lists

\* The list a search is made from.
LEMMA SourceFacts ==
  ASSUME catalog \in Seq(Entries), system \in 1..Len(catalog) \/ system = 1
  PROVE  /\ destination \in {"favorites", "recent"} => Source = destination
         /\ destination \notin GameLists => Source = NoList
         /\ destination = "games" /\ catalog = <<>> => Source = NoList
         /\ destination = "games" /\ catalog # <<>> =>
              /\ catalog[system] \in Range(catalog)
              /\ Source = catalog[system].system /\ Source \in Systems
         /\ Source \in Systems \cup {"favorites", "recent", NoList}
         /\ Source \in Lists \cup {NoList}
<1>1. CASE destination = "games" /\ catalog # <<>>
  <2>1. system \in DOMAIN catalog
    BY <1>1
  <2>2. Source = catalog[system].system
    BY <1>1 DEF Source
  <2>3. catalog[system] \in Range(catalog) /\ catalog[system].system \in Systems
    BY <2>1, CatalogEntries
  <2>4. QED
    BY <1>1, <2>2, <2>3 DEF Lists, GameLists
<1>2. CASE destination \in {"favorites", "recent"}
  BY <1>2 DEF Source, Lists, OtherLists, GameLists
<1>3. CASE destination \notin {"favorites", "recent"} /\ ~(destination = "games" /\ catalog # <<>>)
  <2>1. Source = NoList
    BY <1>3 DEF Source
  <2>2. QED
    BY <1>3, <2>1 DEF GameLists
<1>4. QED
  BY <1>1, <1>2, <1>3

\* The focus f is in order for lists of these lengths.
FocusFits(f, favs, recs, results) ==
  /\ f \in [Lists -> Focus]
  /\ \A l \in Lists : Visible(f[l], IF l = "actions" THEN 3 ELSE Rows)
  /\ f["favorites"].count = Len(favs)
  /\ f["recent"].count = Len(recs)
  /\ \A e \in Range(catalog) : f[e.system].count = Len(e.games)
  /\ f["search"].count = Len(results)
  /\ f["settings"].count = Len(Settings)
  /\ Selectable(f["settings"].selected)

\* One focus changes.
LEMMA PutFocus ==
  ASSUME NEW favs, NEW recs, NEW results, NEW f, FocusFits(f, favs, recs, results),
         catalog \in Seq(Entries),
         NEW l \in Lists, NEW g \in Focus, Visible(g, IF l = "actions" THEN 3 ELSE Rows),
         l = "settings" => Selectable(g.selected)
  PROVE  /\ l = "actions" \/ g.count = f[l].count =>
              FocusFits([f EXCEPT ![l] = g], favs, recs, results)
         /\ \A x : l = "favorites" /\ g.count = Len(x) =>
              FocusFits([f EXCEPT ![l] = g], x, recs, results)
         /\ \A x : l = "recent" /\ g.count = Len(x) =>
              FocusFits([f EXCEPT ![l] = g], favs, x, results)
         /\ \A x : l = "search" /\ g.count = Len(x) =>
              FocusFits([f EXCEPT ![l] = g], favs, recs, x)
<1> DEFINE F == [f EXCEPT ![l] = g]
<1>1. f \in [Lists -> Focus]
  BY DEF FocusFits
<1>2. F \in [Lists -> Focus] /\ F[l] = g /\ \A k \in Lists : k # l => F[k] = f[k]
  BY <1>1
<1> HIDE DEF F
<1>3. \A k \in Lists : Visible(F[k], IF k = "actions" THEN 3 ELSE Rows)
  BY <1>2 DEF FocusFits
<1>4. Selectable(F["settings"].selected)
  BY <1>2 DEF FocusFits, Lists, OtherLists
<1>5. \A e \in Range(catalog) : e.system \in Systems
  BY CatalogEntries
<1>6. {"favorites", "recent", "search", "settings", "actions"} \subseteq Lists
  BY DEF Lists, OtherLists
<1>7. \A e \in Range(catalog) :
        e.system \in Lists /\ e.system \notin {"favorites", "recent", "search", "settings", "actions"}
  BY <1>5, NamesDiffer DEF OtherLists
<1>8. ASSUME l = "actions" \/ g.count = f[l].count
      PROVE  FocusFits(F, favs, recs, results)
  <2>1. \A k \in Lists \ {"actions"} : F[k].count = f[k].count
    BY <1>2, <1>8
  <2>2. QED
    BY <1>2, <1>3, <1>4, <1>6, <1>7, <2>1 DEF FocusFits
<1>9. ASSUME NEW x, l = "favorites", g.count = Len(x)
      PROVE  FocusFits(F, x, recs, results)
  BY <1>2, <1>3, <1>4, <1>6, <1>7, <1>9 DEF FocusFits
<1>10. ASSUME NEW x, l = "recent", g.count = Len(x)
      PROVE  FocusFits(F, favs, x, results)
  BY <1>2, <1>3, <1>4, <1>6, <1>7, <1>10 DEF FocusFits
<1>11. ASSUME NEW x, l = "search", g.count = Len(x)
      PROVE  FocusFits(F, favs, recs, x)
  BY <1>2, <1>3, <1>4, <1>6, <1>7, <1>11 DEF FocusFits
<1>12. QED
  BY <1>8, <1>9, <1>10, <1>11 DEF F

\* Entries, Len of them, that are all new.
LEMMA FreshShows ==
  ASSUME NEW n \in Nat, NEW rows \in Nat \ {0}
  PROVE  Fresh(n) \in Focus /\ Fresh(n).count = n /\ Visible(Fresh(n), rows)
<1>1. Fresh(n) \in Focus /\ Fresh(n).count = n /\ Fresh(n).selected = 0 /\ Fresh(n).start = 0
  BY DEF Fresh, Focus
<1>2. Greater(n - rows, 0) \in Nat
  BY DEF Greater
<1>3. CASE n = 0
  BY <1>1, <1>3 DEF Visible
<1>4. CASE n # 0
  BY <1>1, <1>2, <1>4 DEF Visible
<1>5. QED
  BY <1>1, <1>3, <1>4

\* A list is as long as it was counted.
LEMMA RecountCounts ==
  ASSUME NEW f \in Focus, NEW n \in Nat, NEW rows \in Nat \ {0}
  PROVE  Recounted(f, n, rows).count = n
<1>1. [f EXCEPT !.count = n].count = n
  BY DEF Focus
<1>2. QED
  BY <1>1 DEF Recounted, Reveal, Fresh

\* A search starts again.
LEMMA ClearFits ==
  ASSUME NEW favs, NEW recs, NEW results, NEW f, FocusFits(f, favs, recs, results),
         catalog \in Seq(Entries)
  PROVE  FocusFits(Cleared(f), favs, recs, <<>>)
<1>1. Rows \in Nat \ {0}
  BY ShellAssumption
<1>2. Fresh(0) \in Focus /\ Fresh(0).count = 0 /\ Visible(Fresh(0), Rows)
  BY <1>1, FreshShows
<1>3. "search" \in Lists /\ Fresh(0).count = Len(<<>>)
  BY <1>2 DEF Lists, OtherLists
<1>4. FocusFits([f EXCEPT !["search"] = Fresh(0)], favs, recs, <<>>)
  BY <1>2, <1>3, PutFocus
<1>5. QED
  BY <1>4 DEF Cleared

\* The favorites and the recent games are shown as they are.
LEMMA ShownLists == Shown("favorites") = favorites /\ Shown("recent") = recents
<1> DEFINE games(l) == GamesOf(l)
<1> HIDE DEF games
<1>1. \A l, favs, recs : Contents(l, favs, recs) = CASE l = "favorites" -> favs
    [] l = "recent" -> recs
    [] l = "none" -> <<>>
    [] OTHER -> games(l)
  BY DEF Contents, games, NoList
<1>2. QED
  BY <1>1 DEF Shown

\* What a step shows as favorites and recent games are these lists.
LEMMA ShownListsNext == (Shown("favorites") = favorites /\ Shown("recent") = recents)'
  BY ShownLists, PTL

\* Of a shell that is ready, every focus fits its list.
LEMMA FocusReady ==
  ASSUME ViewTypes, FocusShown, SettingsListed, phase = "ready"
  PROVE  FocusFits(focus, favorites, recents, search.results)
<1>1. Shown("favorites") = favorites /\ Shown("recent") = recents
  BY ShownLists
<1>2. QED
  BY <1>1 DEF ViewTypes, FocusShown, SettingsListed, FocusFits

\* ... and the other way round, after a step.
LEMMA FocusFitsNext ==
  ASSUME catalog' = catalog, FocusFits(focus', favorites', recents', search'.results)
  PROVE  FocusShown' /\ SettingsListed' /\ focus' \in [Lists -> Focus]
<1>1. Shown("favorites")' = favorites' /\ Shown("recent")' = recents'
  BY ShownListsNext
<1>2. QED
  BY <1>1 DEF FocusShown, SettingsListed, FocusFits

\* The list under the focus is as long as the focus says.
LEMMA SourceCounted ==
  ASSUME catalog \in Seq(Entries), system \in 1..Len(catalog) \/ system = 1,
         CatalogInOrder, FocusFits(focus, favorites, recents, search.results),
         Source # NoList
  PROVE  /\ Source \in Lists /\ focus[Source] \in Focus /\ Visible(focus[Source], Rows)
         /\ Shown(Source) = Contents(Source, favorites, recents)
         /\ focus[Source].count = Len(Shown(Source))
<1>1. Source \in Lists /\ Source # "actions"
  BY SourceFacts, NamesDiffer DEF OtherLists
<1>2. focus[Source] \in Focus /\ Visible(focus[Source], Rows)
  BY <1>1 DEF FocusFits
<1>3. CASE Source \in {"favorites", "recent"}
  BY <1>1, <1>2, <1>3 DEF FocusFits, Shown, Contents
<1>4. CASE Source \notin {"favorites", "recent"}
  <2>1. destination = "games" /\ catalog # <<>>
    BY <1>4, SourceFacts DEF GameLists
  <2>2. catalog[system] \in Range(catalog) /\ Source = catalog[system].system
    BY <2>1, SourceFacts
  <2>3. GamesOf(Source) = catalog[system].games
    BY <2>2, GamesOfEntry
  <2>4. Shown(Source) = GamesOf(Source)
    BY <1>4 DEF Shown, Contents
  <2>5. focus[Source].count = Len(catalog[system].games)
    BY <2>2 DEF FocusFits
  <2>6. QED
    BY <1>1, <1>2, <2>3, <2>4, <2>5 DEF Shown
<1>5. QED
  BY <1>3, <1>4

\* A selection points at a game.
LEMMA SelectedAt ==
  ASSUME NEW f \in Focus, Visible(f, Rows), NEW games \in Seq(Games),
         f.count = Len(games), f.count > 0
  PROVE  games[f.selected + 1] \in Games
<1>1. f.count \in Nat /\ f.selected \in 0..f.count - 1
  BY DEF Visible, Focus
<1>2. f.selected + 1 \in 1..Len(games)
  BY <1>1
<1>3. QED
  BY <1>2

\* selected_game is a game or none.
LEMMA SelectedGameTypes ==
  ASSUME catalog \in Seq(Entries), system \in 1..Len(catalog) \/ system = 1,
         favorites \in Seq(Games), recents \in Seq(Games),
         CatalogInOrder, FocusFits(focus, favorites, recents, search.results)
  PROVE  SelectedGame \in Games \cup {None}
<1>1. CASE search.active
  <2> DEFINE games == Shown(search.from)
             place == search.results[focus["search"].selected + 1]
  <2>1. games \in Seq(Games)
    BY ContentsTypes DEF Shown
  <2> HIDE DEF games, place
  <2>2. PointedAt(games, place) \in Games \cup {None}
    BY <2>1 DEF PointedAt
  <2>3. SelectedGame \in {None, PointedAt(games, place)}
    BY <1>1 DEF SelectedGame, games, place
  <2>4. QED
    BY <2>2, <2>3
<1>2. CASE ~search.active /\ (Source = NoList \/ focus[Source].count = 0)
  BY <1>2 DEF SelectedGame
<1>3. CASE ~search.active /\ Source # NoList /\ focus[Source].count # 0
  <2>1. SelectedGame = Shown(Source)[focus[Source].selected + 1]
    BY <1>3 DEF SelectedGame
  <2>2. /\ focus[Source] \in Focus /\ Visible(focus[Source], Rows)
        /\ focus[Source].count = Len(Shown(Source))
    BY <1>3, SourceCounted
  <2>3. Shown(Source) \in Seq(Games)
    BY ContentsTypes DEF Shown
  <2>4. focus[Source].count > 0
    BY <1>3, <2>2 DEF Focus
  <2>5. QED
    BY <2>1, <2>2, <2>3, <2>4, SelectedAt
<1>4. QED
  BY <1>1, <1>2, <1>3

-----------------------------------------------------------------------------
(* The rows of Settings                                                     *)

\* The nearest selectable row in a direction, if there is one.
LEMMA NextRowFacts ==
  ASSUME NEW row \in 0..Len(Settings) - 1, NEW d \in {-1, 1}
  PROVE  /\ NextRow(row, d) \in 0..Len(Settings) - 1
         /\ NextRow(row, d) = row \/ Selectable(NextRow(row, d))
         /\ \A r \in 0..Len(Settings) - 1 :
              Selectable(r) /\ (r - row) * d > 0 => NextRow(row, d) # row
<1> DEFINE N == Len(Settings)
           beyond == {r \in 0..N - 1 : Selectable(r) /\ (r - row) * d > 0}
           Nearest(r) == \A q \in beyond : (r - q) * d <= 0
<1>1. N \in Nat
  BY ShellAssumption
<1>2. NextRow(row, d) = IF beyond = {} THEN row ELSE CHOOSE r \in beyond : Nearest(r)
  BY DEF NextRow
<1> HIDE DEF N
<1>3. ASSUME beyond # {}
      PROVE  \E r \in beyond : Nearest(r)
  <2>1. CASE d = 1
    <3>1. beyond \subseteq Nat
      BY <1>1
    <3> HIDE DEF beyond
    <3>2. PICK r \in beyond : \A q \in beyond : r <= q
      BY <1>3, <3>1, LeastNatural
    <3>3. QED
      BY <2>1, <3>1, <3>2
  <2>2. CASE d = -1
    <3> DEFINE T == {N - 1 - q : q \in beyond}
    <3>1. beyond \subseteq 0..N - 1
      OBVIOUS
    <3>2. T \subseteq Nat /\ T # {}
      <4> HIDE DEF beyond
      <4>1. \A q \in beyond : N - 1 - q \in Nat
        BY <1>1, <3>1
      <4>2. QED
        BY <1>3, <4>1
    <3> HIDE DEF beyond
    <3> HIDE DEF T
    <3>3. PICK t \in T : \A k \in T : t <= k
      BY <3>2, LeastNatural
    <3>4. PICK r \in beyond : t = N - 1 - r
      BY <3>3 DEF T
    <3>5. ASSUME NEW q \in beyond
          PROVE  (r - q) * d <= 0
      <4>1. N - 1 - r <= N - 1 - q
        BY <3>3, <3>4 DEF T
      <4>2. r \in Int /\ q \in Int
        BY <3>1
      <4>3. QED
        BY <1>1, <2>2, <4>1, <4>2
    <3>6. QED
      BY <3>4, <3>5
  <2>3. QED
    BY <2>1, <2>2
<1>4. CASE beyond = {}
  BY <1>2, <1>4 DEF N
<1>5. CASE beyond # {}
  <2> DEFINE c == CHOOSE r \in beyond : Nearest(r)
  <2>1. c \in beyond
    <3> HIDE DEF beyond, Nearest
    <3>1. QED
      BY <1>3, <1>5
  <2>2. NextRow(row, d) = c
    BY <1>2, <1>5
  <2> HIDE DEF c
  <2>3. c \in 0..N - 1 /\ Selectable(c) /\ c # row
    BY <1>1, <2>1
  <2>4. QED
    BY <2>2, <2>3 DEF N
<1>6. QED
  BY <1>4, <1>5

\* settings_focus_step: the window follows the selection.
LEMMA SteppedShows ==
  ASSUME NEW f \in Focus, Visible(f, Rows), NEW row \in 0..f.count - 1
  PROVE  /\ SettingsStepped(f, row) \in Focus /\ Visible(SettingsStepped(f, row), Rows)
         /\ SettingsStepped(f, row).count = f.count /\ SettingsStepped(f, row).selected = row
<1> DEFINE start == IF row < f.start THEN row ELSE Greater(f.start, row - Rows + 1)
           g == SettingsStepped(f, row)
<1>1. Rows \in Nat \ {0} /\ f.count \in Nat \ {0} /\ f.selected \in Nat /\ f.start \in Nat
  BY ShellAssumption, FocusFields
<1>2. f.start \in 0..Greater(f.count - Rows, 0)
  BY <1>1 DEF Visible
<1>3. start \in Nat /\ start <= row /\ row < start + Rows
  BY <1>1 DEF Greater
<1>4. start <= Greater(f.count - Rows, 0)
  BY <1>1, <1>2 DEF Greater
<1>5. g = [f EXCEPT !.selected = row, !.start = start]
  BY DEF SettingsStepped
<1> HIDE DEF start, g
<1>6. g.count = f.count /\ g.selected = row /\ g.start = start /\ g \in Focus
  <2>1. row \in Nat /\ start \in Nat
    BY <1>1, <1>3
  <2>2. g.count = f.count /\ g.selected = row /\ g.start = start
    BY <1>5 DEF Focus
  <2>3. g = [count |-> f.count, selected |-> row, start |-> start]
    BY <1>5 DEF Focus
  <2>4. QED
    BY <1>1, <2>1, <2>2, <2>3 DEF Focus
<1>7. start \in 0..Greater(f.count - Rows, 0)
  BY <1>1, <1>3, <1>4 DEF Greater
<1>8. Visible(g, Rows)
  BY <1>1, <1>3, <1>6, <1>7 DEF Visible
<1>9. QED
  BY <1>6, <1>8 DEF g

\* A page that moves the selection moves it in the page's direction.
LEMMA PageGoes ==
  ASSUME NEW f \in Focus, Visible(f, Rows), NEW d \in {-1, 1}, f.count > 0
  PROVE  /\ Paged(f, d, Rows).count = f.count
         /\ Paged(f, d, Rows).selected \in 0..f.count - 1
         /\ Paged(f, d, Rows).selected # f.selected =>
              (f.selected - Paged(f, d, Rows).selected) * (-d) > 0
<1> DEFINE far == d * Greater(Rows - 1, 1)
           to == Greater(0, Lesser(f.selected + far, f.count - 1))
           p == Paged(f, d, Rows)
<1>1. Rows \in Nat \ {0} /\ f.count \in Nat \ {0} /\ f.selected \in 0..f.count - 1
  BY ShellAssumption, FocusFields DEF Visible
<1>2. Greater(Rows - 1, 1) \in Nat \ {0}
  BY <1>1 DEF Greater
<1>3. far \in Int /\ (d = 1 => far > 0) /\ (d = -1 => far < 0)
  BY <1>2
<1> HIDE DEF far
<1>4. to \in 0..f.count - 1
  BY <1>1, <1>3 DEF Greater, Lesser
<1>5. to # f.selected => (f.selected - to) * (-d) > 0
  <2>1. CASE d = 1
    <3>1. to >= f.selected
      BY <1>1, <1>3, <2>1 DEF Greater, Lesser
    <3> HIDE DEF to
    <3>2. QED
      BY <1>1, <1>4, <2>1, <3>1
  <2>2. CASE d = -1
    <3>1. to <= f.selected
      BY <1>1, <1>3, <2>2 DEF Greater, Lesser
    <3> HIDE DEF to
    <3>2. QED
      BY <1>1, <1>4, <2>2, <3>1
  <2>3. QED
    BY <2>1, <2>2
<1>6. p = Reveal([f EXCEPT !.selected = to], Rows)
  BY <1>1 DEF Paged, Moved, far
<1> HIDE DEF to, p
<1>7. [f EXCEPT !.selected = to].count = f.count /\ [f EXCEPT !.selected = to].selected = to
  BY DEF Focus
<1>8. Lesser(to, f.count - 1) = to
  BY <1>1, <1>4 DEF Lesser
<1>9. p.count = f.count /\ p.selected = to
  BY <1>1, <1>6, <1>7, <1>8 DEF Reveal
<1>10. QED
  BY <1>4, <1>5, <1>9 DEF p

\* A page in Settings ends on a row that can be selected.
LEMMA SettingsPageShows ==
  ASSUME NEW f \in Focus, Visible(f, Rows), f.count = Len(Settings),
         Selectable(f.selected), NEW d \in {-1, 1}
  PROVE  /\ SettingsPaged(f, d) \in Focus /\ Visible(SettingsPaged(f, d), Rows)
         /\ SettingsPaged(f, d).count = f.count
         /\ Selectable(SettingsPaged(f, d).selected)
<1> DEFINE paged == Paged(f, d, Rows)
           ahead == NextRow(paged.selected, d)
           back == NextRow(paged.selected, -d)
           row == IF Selectable(paged.selected) THEN paged.selected
                  ELSE IF ahead # paged.selected THEN ahead ELSE back
<1>1. Rows \in Nat \ {0} /\ f.count > 0 /\ f.selected \in 0..f.count - 1
  BY ShellAssumption, FocusFields DEF Visible
<1>2. paged \in Focus /\ Visible(paged, Rows) /\ paged.count = f.count
  BY <1>1, PageShows, PageGoes
<1>3. /\ paged.selected \in 0..Len(Settings) - 1
      /\ paged.selected # f.selected => (f.selected - paged.selected) * (-d) > 0
  BY <1>1, PageGoes
<1>4. SettingsPaged(f, d) = IF paged.selected = f.selected THEN paged
                            ELSE Reveal([paged EXCEPT !.selected = row], Rows)
  BY DEF SettingsPaged
<1> HIDE DEF paged
<1>5. CASE paged.selected = f.selected
  BY <1>2, <1>4, <1>5
<1>6. CASE paged.selected # f.selected
  <2>1. /\ ahead \in 0..Len(Settings) - 1
        /\ ahead = paged.selected \/ Selectable(ahead)
    BY <1>3, NextRowFacts
  <2>2. /\ back \in 0..Len(Settings) - 1
        /\ back = paged.selected \/ Selectable(back)
        /\ back # paged.selected
    <3>1. -d \in {-1, 1}
      OBVIOUS
    <3>2. f.selected \in 0..Len(Settings) - 1 /\ (f.selected - paged.selected) * (-d) > 0
      BY <1>1, <1>3, <1>6
    <3>3. QED
      BY <1>3, <3>1, <3>2, NextRowFacts
  <2>3. row \in 0..f.count - 1 /\ Selectable(row)
    BY <1>3, <2>1, <2>2
  <2> HIDE DEF row
  <2>4. SettingsPaged(f, d) = Reveal([paged EXCEPT !.selected = row], Rows)
    BY <1>4, <1>6
  <2>5. [paged EXCEPT !.selected = row] \in Focus
    BY <1>2, <2>3 DEF Focus
  <2>6. /\ [paged EXCEPT !.selected = row].count = f.count
        /\ [paged EXCEPT !.selected = row].selected = row
    BY <1>2 DEF Focus
  <2>7. Lesser(row, f.count - 1) = row
    BY <2>3 DEF Lesser
  <2>8. /\ SettingsPaged(f, d).count = f.count
        /\ SettingsPaged(f, d).selected = row
    BY <1>1, <2>4, <2>6, <2>7 DEF Reveal
  <2>9. SettingsPaged(f, d) \in Focus /\ Visible(SettingsPaged(f, d), Rows)
    BY <1>1, <2>4, <2>5, RevealShows
  <2>10. QED
    BY <2>3, <2>8, <2>9
<1>7. QED
  BY <1>5, <1>6

\* The selection of Settings is never on a heading.
LEMMA SettingsStepShows ==
  ASSUME NEW f \in Focus, Visible(f, Rows), f.count = Len(Settings),
         Selectable(f.selected), NEW d \in {-1, 1},
         NEW row \in {NextRow(f.selected, d), NextRow(NextRow(f.selected, d), d)}
  PROVE  /\ SettingsStepped(f, row) \in Focus /\ Visible(SettingsStepped(f, row), Rows)
         /\ SettingsStepped(f, row).count = f.count
         /\ Selectable(SettingsStepped(f, row).selected)
<1> DEFINE next == NextRow(f.selected, d)
<1>1. f.count > 0 /\ f.selected \in 0..Len(Settings) - 1
  BY ShellAssumption, FocusFields DEF Visible
<1>2. next \in 0..Len(Settings) - 1 /\ Selectable(next)
  BY <1>1, NextRowFacts
<1> HIDE DEF next
<1>3. NextRow(next, d) \in 0..Len(Settings) - 1 /\ Selectable(NextRow(next, d))
  BY <1>2, NextRowFacts
<1>4. row \in 0..f.count - 1 /\ Selectable(row)
  BY <1>2, <1>3 DEF next
<1>5. QED
  BY <1>4, SteppedShows

-----------------------------------------------------------------------------
(* The steps                                                                *)

IInv ==
  /\ TypeOK /\ DataTypes /\ ViewTypes
  /\ CatalogInOrder /\ NotBegun /\ NotShown /\ PagesInOrder /\ NoneLost
  /\ FavoritesKept /\ LayersFit /\ SearchFits /\ SettingsListed
  /\ FocusShown /\ ResultsAreOfList /\ LoadComplete

\* Reading, and what happens to the library meanwhile.
ReadStep ==
  \/ LoadRecents \/ LoadFavorites \/ LoadSystems \/ CheckCursor \/ ReadPage
  \/ \E g \in Games : LibraryMoves(g)

LoadStep == ReadStep \/ LoadDone

\* Buttons that leave every list, every focus and the search as they are.
QuietStep ==
  \/ DialogStep \/ DialogClose \/ DialogConfirm \/ ActionsPlay \/ ActionsRemove
  \/ FormBack \/ FormSubmit \/ FirstRunDone \/ Switcher \/ QuickClose \/ QuickToggle
  \/ OpenSettings \/ SearchApply \/ SafeMenu \/ RootFocus \/ RootOpen \/ SettingsOpen \/ Play

\* Buttons that move the focus.
FocusStep ==
  \/ \E d \in {-1, 1} : ActionsStep(d)
  \/ ActionsBack \/ Scroll \/ SettingsScroll \/ OpenActions

\* Buttons that change the search or the lists.
ListStep ==
  \/ RemoveConfirm \/ ActionsFavorite \/ SearchType \/ SearchBack
  \/ Back \/ SwitchSystem \/ OpenSearch \/ ToggleFavorite

UserStep == QuietStep \/ FocusStep \/ ListStep

\* These are all steps.
LEMMA AllSteps ==
  ASSUME Next
  PROVE  LoadStep \/ QuietStep \/ FocusStep \/ ListStep
BY DEF Next, LoadStep, ReadStep, QuietStep, FocusStep, ListStep

\* What a button never touches: the library, what was read of it, and the books
\* kept of the reading.
ReadOnce ==
  /\ phase = "ready" /\ phase' \in {"ready", "left"}
  /\ UNCHANGED <<listed, queried, left, cursor, checked, taken, throughout, unloaded, moves, catalog>>

\* Staging something changes nothing else.
LEMMA LeaveFrame ==
  ASSUME NEW what, phase = "ready", Leave(what)
  PROVE  /\ ReadOnce
         /\ UNCHANGED <<dataVars, listVars, viewVars, layerVars, safe, continue, spent>>
         /\ phase' = "left" /\ outcome' = what
BY DEF Leave, ReadOnce, dataVars, listVars, viewVars, layerVars, restVars

\* Closing a layer changes nothing under it.
LEMMA CloseFrame ==
  ASSUME NEW layer, Close(layer)
  PROVE  /\ ReadOnce /\ OnTop = layer
         /\ UNCHANGED <<dataVars, listVars, viewVars, button, action, continue, spent, outcome>>
         /\ layers' = layers \ {layer}
BY DEF Close, At, ReadOnce, dataVars, loadVars, listVars, viewVars

\* The buttons that leave lists, focus and search alone.
LEMMA QuietFrame ==
  ASSUME QuietStep
  PROVE  /\ ReadOnce
         /\ UNCHANGED <<dataVars, listVars, system, search, focus>>
<1> USE DEF At, ReadOnce, dataVars, loadVars, listVars, viewVars, layerVars, restVars
<1>1. CASE DialogStep
  BY <1>1 DEF DialogStep
<1>2. CASE DialogClose
  BY <1>2 DEF DialogClose
<1>3. CASE DialogConfirm
  BY <1>3 DEF DialogConfirm
<1>4. CASE ActionsPlay
  BY <1>4, LeaveFrame DEF ActionsPlay
<1>5. CASE ActionsRemove
  BY <1>5 DEF ActionsRemove
<1>6. CASE FormBack \/ FormSubmit \/ FirstRunDone \/ QuickClose
  BY <1>6, CloseFrame DEF FormBack, FormSubmit, FirstRunDone, QuickClose
<1>7. CASE Switcher
  BY <1>7, LeaveFrame DEF Switcher
<1>8. CASE QuickToggle
  BY <1>8 DEF QuickToggle
<1>9. CASE OpenSettings
  BY <1>9 DEF OpenSettings
<1>10. CASE SearchApply
  BY <1>10 DEF SearchApply
<1>11. CASE SafeMenu
  <2>1. CASE GoTo("games")
    BY <1>11, <2>1 DEF SafeMenu, GoTo
  <2>2. CASE \E dialog \in {"rollback", "reset"} \ spent : Ask(dialog)
    BY <1>11, <2>2 DEF SafeMenu, Ask
  <2>3. CASE Leave("restart")
    BY <1>11, <2>3, LeaveFrame DEF SafeMenu
  <2>4. QED
    BY <1>11, <2>1, <2>2, <2>3 DEF SafeMenu
<1>12. CASE RootFocus
  BY <1>12 DEF RootFocus
<1>13. CASE RootOpen
  <2>1. CASE continue
    BY <1>13, <2>1, LeaveFrame DEF RootOpen
  <2>2. CASE ~continue
    BY <1>13, <2>2 DEF RootOpen, GoTo
  <2>3. QED
    BY <2>1, <2>2
<1>14. CASE SettingsOpen
  BY <1>14 DEF SettingsOpen, Ask
<1>15. CASE Play
  <2>1. phase = "ready" /\ \E what : Leave(what)
    BY <1>15 DEF Play
  <2>2. QED
    BY <2>1, LeaveFrame
<1>16. QED
  BY <1>1, <1>2, <1>3, <1>4, <1>5, <1>6, <1>7, <1>8, <1>9, <1>10, <1>11, <1>12, <1>13,
     <1>14, <1>15 DEF QuietStep

\* The buttons that move a focus change no list and no search.
LEMMA FocusFrame ==
  ASSUME FocusStep
  PROVE  /\ ReadOnce /\ phase' = "ready"
         /\ UNCHANGED <<dataVars, listVars, destination, system, search, button, restVars>>
<1> USE DEF At, ReadOnce, dataVars, loadVars, listVars, layerVars
<1>1. CASE \E d \in {-1, 1} : ActionsStep(d)
  BY <1>1 DEF ActionsStep
<1>2. CASE ActionsBack
  BY <1>2 DEF ActionsBack
<1>3. CASE Scroll
  BY <1>3 DEF Scroll
<1>4. CASE SettingsScroll
  BY <1>4 DEF SettingsScroll
<1>5. CASE OpenActions
  BY <1>5 DEF OpenActions
<1>6. QED
  BY <1>1, <1>2, <1>3, <1>4, <1>5 DEF FocusStep

\* The buttons that change a list or the search go on.
LEMMA ListFrame ==
  ASSUME ListStep
  PROVE  /\ ReadOnce /\ phase' = "ready"
         /\ UNCHANGED <<safe, account, spent, outcome>>
<1> USE DEF At, ReadOnce, loadVars, listVars, dataVars, layerVars, restVars
<1>1. CASE RemoveConfirm
  BY <1>1 DEF RemoveConfirm
<1>2. CASE ActionsFavorite
  BY <1>2 DEF ActionsFavorite
<1>3. CASE SearchType \/ SearchBack
  BY <1>3 DEF SearchType, SearchBack
<1>4. CASE Back \/ SwitchSystem \/ OpenSearch
  BY <1>4 DEF Back, SwitchSystem, OpenSearch
<1>5. CASE ToggleFavorite
  BY <1>5 DEF ToggleFavorite
<1>6. QED
  BY <1>1, <1>2, <1>3, <1>4, <1>5 DEF ListStep

\* No button touches what was read.
LEMMA UserFrame ==
  ASSUME UserStep
  PROVE  ReadOnce
BY QuietFrame, FocusFrame, ListFrame DEF UserStep

-----------------------------------------------------------------------------
(* What a search makes                                                      *)

Hits(query) == {g \in Games : query \in Matches[g]}

\* The results are places of the list; read in it they are the games that match.
LEMMA RebuiltFacts ==
  ASSUME NEW query \in Seq(Chars), NEW games \in Seq(Games), Source \in Lists \cup {NoList}
  PROVE  /\ Rebuilt(query, games) \in [query : Seq(Chars), active : BOOLEAN,
                                       from : Lists \cup {NoList}, results : Seq(Nat)]
         /\ Rebuilt(query, games).from = Source
         /\ Rebuilt(query, games).query = query
         /\ [i \in DOMAIN Rebuilt(query, games).results |->
               PointedAt(games, Rebuilt(query, games).results[i])] = Kept(games, Hits(query))
<1> DEFINE all == [i \in 1..Len(games) |-> i]
           here == {i \in 1..Len(games) : query \in Matches[games[i]]}
           hit == {i \in 1..Len(games) : games[i] \in Hits(query)}
           places == Kept(all, hit)
           made == Rebuilt(query, games)
<1>1. here = hit
  <2>1. \A i \in 1..Len(games) : games[i] \in Games
    OBVIOUS
  <2>2. QED
    BY <2>1 DEF Hits
<1>2. places \in Seq(1..Len(games)) /\ [i \in DOMAIN places |-> games[places[i]]] = Kept(games, Hits(query))
  BY PlacesPoint
<1>3. made = [query |-> query, active |-> query # <<>>, from |-> Source, results |-> places]
  BY <1>1 DEF Rebuilt
<1> HIDE DEF places, made
<1>4. made.from = Source /\ made.query = query /\ made.results = places /\ made.active = (query # <<>>)
  BY <1>3
<1>5. places \in Seq(Nat)
  <2>1. Len(places) \in Nat /\ \A i \in 1..Len(places) : places[i] \in Nat
    BY <1>2
  <2>2. places = [i \in 1..Len(places) |-> places[i]]
    BY <1>2
  <2>3. QED
    BY <2>1, <2>2
<1>6. [i \in DOMAIN places |-> PointedAt(games, places[i])] = [i \in DOMAIN places |-> games[places[i]]]
  <2>1. \A i \in DOMAIN places : places[i] \in DOMAIN games
    BY <1>2
  <2>2. \A i \in DOMAIN places : PointedAt(games, places[i]) = games[places[i]]
    BY <2>1 DEF PointedAt
  <2>3. QED
    BY <2>2
<1>7. made \in [query : Seq(Chars), active : BOOLEAN, from : Lists \cup {NoList}, results : Seq(Nat)]
  BY <1>3, <1>5
<1>8. QED
  BY <1>2, <1>4, <1>6, <1>7 DEF made

\* The results are listed from their first.
LEMMA RecountFits ==
  ASSUME NEW favs, NEW recs, NEW results, NEW f, FocusFits(f, favs, recs, results),
         catalog \in Seq(Entries), NEW x, Len(x) \in Nat
  PROVE  /\ FocusFits([f EXCEPT !["search"] = Recounted(@, Len(x), Rows)], favs, recs, x)
         /\ FocusFits([f EXCEPT !["favorites"] = Recounted(@, Len(x), Rows)], x, recs, results)
         /\ FocusFits([f EXCEPT !["recent"] = Recounted(@, Len(x), Rows)], favs, x, results)
<1>1. Rows \in Nat \ {0}
  BY ShellAssumption
<1>2. {"search", "favorites", "recent"} \subseteq Lists
  BY DEF Lists, OtherLists
<1>3. \A l \in Lists : f[l] \in Focus
  BY DEF FocusFits
<1>4. ASSUME NEW l \in Lists
      PROVE  /\ Recounted(f[l], Len(x), Rows) \in Focus
             /\ Recounted(f[l], Len(x), Rows).count = Len(x)
             /\ Visible(Recounted(f[l], Len(x), Rows), Rows)
  BY <1>1, <1>3, RecountShows, RecountCounts
<1>5. FocusFits([f EXCEPT !["search"] = Recounted(f["search"], Len(x), Rows)], favs, recs, x)
  BY <1>2, <1>4, PutFocus
<1>6. FocusFits([f EXCEPT !["favorites"] = Recounted(f["favorites"], Len(x), Rows)], x, recs, results)
  BY <1>2, <1>4, PutFocus
<1>7. FocusFits([f EXCEPT !["recent"] = Recounted(f["recent"], Len(x), Rows)], favs, x, results)
  BY <1>2, <1>4, PutFocus
<1>8. QED
  BY <1>5, <1>6, <1>7

\* The actions of a game are listed or not.
LEMMA ActionsFits ==
  ASSUME NEW favs, NEW recs, NEW results, NEW f, FocusFits(f, favs, recs, results),
         catalog \in Seq(Entries), NEW g \in Focus, Visible(g, 3)
  PROVE  FocusFits([f EXCEPT !["actions"] = g], favs, recs, results)
<1>1. "actions" \in Lists
  BY DEF Lists, OtherLists
<1>2. QED
  BY <1>1, PutFocus

\* What a shell that is ready is made of, by name.
LEMMA Ready ==
  ASSUME IInv, phase = "ready"
  PROVE  /\ FocusFits(focus, favorites, recents, search.results)
         /\ catalog \in Seq(Entries) /\ CatalogInOrder
         /\ favorites \in Seq(Games) /\ recents \in Seq(Games)
         /\ system \in 1..Len(catalog) \/ system = 1
         /\ layers \subseteq Range(Priority)
         /\ Source \in Lists \cup {NoList}
         /\ search.query \in Seq(Chars)
         /\ Len(search.results) \in Nat
<1>1. FocusFits(focus, favorites, recents, search.results)
  BY FocusReady DEF IInv
<1>2. /\ catalog \in Seq(Entries) /\ CatalogInOrder
      /\ favorites \in Seq(Games) /\ recents \in Seq(Games)
      /\ system \in 1..Len(catalog) \/ system = 1
      /\ layers \subseteq Range(Priority)
  BY DEF IInv, DataTypes, TypeOK
<1>3. search.query \in Seq(Chars) /\ search.results \in Seq(Nat)
  BY DEF IInv, ViewTypes
<1>4. QED
  BY <1>1, <1>2, <1>3, SourceFacts

-----------------------------------------------------------------------------
(* FocusShown                                                               *)

\* The focus that UP and DOWN move is never that of the actions.
LEMMA FocusedFacts ==
  ASSUME IInv, phase = "ready"
  PROVE  Focused # "actions"
<1>1. catalog \in Seq(Entries) /\ (system \in 1..Len(catalog) \/ system = 1)
  BY Ready
<1>2. Source \in Systems \cup {"favorites", "recent", NoList}
  BY <1>1, SourceFacts
<1>3. Source # "actions"
  BY <1>2, NamesDiffer DEF OtherLists, NoList
<1>4. destination # "actions"
  BY DEF IInv, TypeOK, GameLists
<1>5. QED
  BY <1>3, <1>4 DEF Focused

\* UP, DOWN and the shoulder buttons move a focus within its list.
LEMMA ScrollShows ==
  ASSUME IInv, Scroll
  PROVE  FocusFits(focus', favorites, recents, search.results)
<1> DEFINE l == Focused
           f == focus[l]
<1>1. phase = "ready" /\ l \in Lists \ {"settings"}
  BY DEF Scroll, At
<1>2. FocusFits(focus, favorites, recents, search.results) /\ catalog \in Seq(Entries)
  BY <1>1, Ready
<1>3. PICK d \in {-1, 1} :
        \/ focus' = [focus EXCEPT ![l] = Moved(f, d, Rows)]
        \/ focus' = [focus EXCEPT ![l] = Paged(f, d, Rows)]
        \/ focus' = [focus EXCEPT ![l] = Moved(Moved(Moved(f, d, Rows), d, Rows), d, Rows)]
  BY DEF Scroll
<1>4. l # "actions" /\ Rows \in Nat \ {0}
  BY <1>1, FocusedFacts, ShellAssumption
<1> HIDE DEF l
<1>5. f \in Focus /\ Visible(f, Rows)
  BY <1>1, <1>2, <1>4 DEF FocusFits
<1> HIDE DEF f
<1>6. \A x \in Focus : Visible(x, Rows) =>
        Moved(x, d, Rows) \in Focus /\ Visible(Moved(x, d, Rows), Rows)
          /\ Moved(x, d, Rows).count = x.count
  BY <1>4, MoveShows
<1>7. Paged(f, d, Rows).count = f.count
  <2>1. Greater(Rows - 1, 1) \in Nat
    BY <1>4 DEF Greater
  <2>2. d * Greater(Rows - 1, 1) \in Int
    BY <2>1
  <2>3. QED
    BY <1>4, <1>5, <2>2, MoveShows DEF Paged
<1>8. PICK g \in Focus : Visible(g, Rows) /\ g.count = f.count /\ focus' = [focus EXCEPT ![l] = g]
  <2>1. Paged(f, d, Rows) \in Focus /\ Visible(Paged(f, d, Rows), Rows)
    BY <1>4, <1>5, PageShows
  <2> DEFINE m1 == Moved(f, d, Rows)
             m2 == Moved(m1, d, Rows)
             m3 == Moved(m2, d, Rows)
  <2>2. m1 \in Focus /\ Visible(m1, Rows) /\ m1.count = f.count
    BY <1>5, <1>6
  <2>3. m2 \in Focus /\ Visible(m2, Rows) /\ m2.count = f.count
    <3> HIDE DEF m1
    <3>1. QED
      BY <1>6, <2>2
  <2>4. m3 \in Focus /\ Visible(m3, Rows) /\ m3.count = f.count
    <3> HIDE DEF m2
    <3>1. QED
      BY <1>6, <2>3
  <2>5. focus' \in {[focus EXCEPT ![l] = m1], [focus EXCEPT ![l] = Paged(f, d, Rows)],
                    [focus EXCEPT ![l] = m3]}
    BY <1>3
  <2> HIDE DEF m1, m3
  <2>6. QED
    BY <1>7, <2>1, <2>2, <2>4, <2>5
<1>9. FocusFits([focus EXCEPT ![l] = g], favorites, recents, search.results)
  BY <1>1, <1>2, <1>4, <1>8, PutFocus DEF f
<1>10. QED
  BY <1>8, <1>9

\* In Settings too, and never to a heading.
LEMMA SettingsScrollShows ==
  ASSUME IInv, SettingsScroll
  PROVE  FocusFits(focus', favorites, recents, search.results)
<1> DEFINE f == focus["settings"]
<1>1. phase = "ready" /\ "settings" \in Lists
  BY DEF SettingsScroll, At, Lists, OtherLists
<1>2. FocusFits(focus, favorites, recents, search.results) /\ catalog \in Seq(Entries)
  BY <1>1, Ready
<1>3. PICK d \in {-1, 1} : \E g \in {SettingsStepped(f, NextRow(f.selected, d)),
                                     SettingsStepped(f, NextRow(NextRow(f.selected, d), d)),
                                     SettingsPaged(f, d)} :
        focus' = [focus EXCEPT !["settings"] = g]
  BY DEF SettingsScroll
<1>4. f \in Focus /\ Visible(f, Rows) /\ f.count = Len(Settings) /\ Selectable(f.selected)
  BY <1>1, <1>2 DEF FocusFits
<1>5. PICK g \in {SettingsStepped(f, NextRow(f.selected, d)),
                  SettingsStepped(f, NextRow(NextRow(f.selected, d), d)),
                  SettingsPaged(f, d)} : focus' = [focus EXCEPT !["settings"] = g]
  BY <1>3
<1> HIDE DEF f
<1>6. g \in Focus /\ Visible(g, Rows) /\ g.count = f.count /\ Selectable(g.selected)
  <2>1. CASE g = SettingsPaged(f, d)
    BY <1>4, <2>1, SettingsPageShows
  <2>2. CASE g # SettingsPaged(f, d)
    <3>1. PICK row \in {NextRow(f.selected, d), NextRow(NextRow(f.selected, d), d)} :
            g = SettingsStepped(f, row)
      BY <2>2
    <3>2. QED
      BY <1>4, <3>1, SettingsStepShows
  <2>3. QED
    BY <2>1, <2>2
<1>7. FocusFits([focus EXCEPT !["settings"] = g], favorites, recents, search.results)
  BY <1>1, <1>2, <1>6, PutFocus DEF f
<1>8. QED
  BY <1>5, <1>7

\* The buttons that move the focus leave it in its list.
LEMMA FocusStepShows ==
  ASSUME IInv, FocusStep
  PROVE  FocusFits(focus', favorites', recents', search'.results)
<1>1. phase = "ready" /\ UNCHANGED <<favorites, recents, search>>
  BY FocusFrame DEF ReadOnce, listVars
<1>2. FocusFits(focus, favorites, recents, search.results) /\ catalog \in Seq(Entries)
  BY <1>1, Ready
<1>3. CASE \E d \in {-1, 1} : ActionsStep(d)
  <2>1. PICK d \in {-1, 1} : focus' = [focus EXCEPT !["actions"] = Moved(focus["actions"], d, 3)]
    BY <1>3 DEF ActionsStep
  <2>2. focus["actions"] \in Focus /\ Visible(focus["actions"], 3)
    BY <1>2 DEF FocusFits, Lists, OtherLists
  <2>3. Moved(focus["actions"], d, 3) \in Focus /\ Visible(Moved(focus["actions"], d, 3), 3)
    BY <2>2, MoveShows
  <2>4. QED
    BY <1>1, <1>2, <2>1, <2>3, ActionsFits
<1>4. CASE ActionsBack
  <2>1. Fresh(0) \in Focus /\ Visible(Fresh(0), 3)
    BY FreshShows
  <2>2. focus' = [focus EXCEPT !["actions"] = Fresh(0)]
    BY <1>4 DEF ActionsBack
  <2>3. QED
    BY <1>1, <1>2, <2>1, <2>2, ActionsFits
<1>5. CASE OpenActions
  <2>1. PICK n \in {2, 3} : focus' = [focus EXCEPT !["actions"] = Fresh(n)]
    BY <1>5 DEF OpenActions
  <2>2. Fresh(n) \in Focus /\ Visible(Fresh(n), 3)
    BY FreshShows
  <2>3. QED
    BY <1>1, <1>2, <2>1, <2>2, ActionsFits
<1>6. CASE Scroll
  BY <1>1, <1>6, ScrollShows
<1>7. CASE SettingsScroll
  BY <1>1, <1>7, SettingsScrollShows
<1>8. QED
  BY <1>3, <1>4, <1>5, <1>6, <1>7 DEF FocusStep

\* A write leaves lists of games.
LEMMA WriteTypes ==
  ASSUME favorites \in Seq(Games), stored \in Seq(Games), NEW g \in Games, NEW ok \in BOOLEAN
  PROVE  FavoritesIf(g, ok) \in Seq(Games) /\ StoredIf(g, ok) \in Seq(Games)
<1>1. /\ Kept(favorites, Games \ {g}) \in Seq(Games)
      /\ Kept(stored, Games \ {g}) \in Seq(Games)
  BY KeptFacts
<1>2. Append(favorites, g) \in Seq(Games) /\ Append(stored, g) \in Seq(Games)
  OBVIOUS
<1>3. FavoritesIf(g, ok) \in {favorites, Kept(favorites, Games \ {g}), Append(favorites, g)}
  BY DEF FavoritesIf
<1>4. StoredIf(g, ok) \in {stored, Kept(stored, Games \ {g}), Append(stored, g)}
  BY DEF StoredIf
<1>5. QED
  BY <1>1, <1>2, <1>3, <1>4

\* What the buttons that change lists or the search leave behind: lists with a
\* focus that fits, and a search that is given up, made again of the list as it
\* has become, or was not applied.
ListsAfter ==
  /\ favorites' \in Seq(Games) /\ stored' \in Seq(Games)
  /\ recents' \in Seq(Games) /\ history' \in Seq(Games)
  /\ FocusFits(focus', favorites', recents', search'.results)
  /\ \/ search' = NoSearch
     \/ search' = search /\ ~search.active
     \/ \E query \in Seq(Chars) :
          search' = Rebuilt(query, Contents(Source, favorites', recents'))

\* The actions' game exists, and so does the removal's.
LEMMA ActionGame ==
  ASSUME IInv, phase = "ready", OnTop \in {"actions", "remove"}
  PROVE  action.game \in Games /\ "actions" \in layers
<1>1. OnTop \in layers
  BY OnTopFacts DEF IInv, TypeOK
<1>2. QED
  BY <1>1 DEF IInv, LayersFit

\* A removal takes the game out of the recent games, of the screen and stored.
LEMMA RemoveConfirmLists ==
  ASSUME IInv, RemoveConfirm
  PROVE  ListsAfter
<1> DEFINE kept == Kept(recents, Games \ {action.game})
           moved == [focus EXCEPT !["recent"] = Recounted(@, Len(kept), Rows)]
           closed == [moved EXCEPT !["actions"] = Fresh(0)]
<1>1. phase = "ready"
  BY DEF RemoveConfirm, At
<1>2. /\ FocusFits(focus, favorites, recents, search.results) /\ catalog \in Seq(Entries)
      /\ favorites \in Seq(Games) /\ recents \in Seq(Games)
  BY <1>1, Ready
<1>3. stored \in Seq(Games) /\ history \in Seq(Games)
  BY DEF IInv, DataTypes
<1>4. kept \in Seq(Games) /\ Kept(history, Games \ {action.game}) \in Seq(Games)
  BY <1>2, <1>3, KeptFacts
<1>5. /\ recents' = kept /\ history' = Kept(history, Games \ {action.game})
      /\ favorites' = favorites /\ stored' = stored /\ search' = NoSearch
      /\ focus' = Cleared(closed)
  BY DEF RemoveConfirm
<1> HIDE DEF kept
<1>6. FocusFits(moved, favorites, kept, search.results)
  <2>1. Len(kept) \in Nat
    BY <1>4
  <2>2. QED
    BY <1>2, <2>1, RecountFits
<1> HIDE DEF moved
<1>7. FocusFits(closed, favorites, kept, search.results)
  BY <1>2, <1>6, FreshShows, ActionsFits
<1> HIDE DEF closed
<1>8. FocusFits(Cleared(closed), favorites, kept, <<>>)
  BY <1>2, <1>7, ClearFits
<1>9. QED
  BY <1>2, <1>3, <1>4, <1>5, <1>8 DEF ListsAfter, NoSearch

\* A toggle among the actions recounts the favorites.
LEMMA ActionsFavoriteLists ==
  ASSUME IInv, ActionsFavorite
  PROVE  ListsAfter
<1> DEFINE moved == [focus EXCEPT !["favorites"] = Recounted(@, Len(favorites'), Rows)]
           closed == [moved EXCEPT !["actions"] = Fresh(0)]
<1>1. phase = "ready" /\ OnTop = "actions"
  BY DEF ActionsFavorite, At
<1>2. /\ FocusFits(focus, favorites, recents, search.results) /\ catalog \in Seq(Entries)
      /\ favorites \in Seq(Games) /\ recents \in Seq(Games)
  BY <1>1, Ready
<1>3. stored \in Seq(Games) /\ history \in Seq(Games)
  BY DEF IInv, DataTypes
<1>4. favorites' \in Seq(Games) /\ stored' \in Seq(Games)
  <2>1. PICK ok \in BOOLEAN : Write(action.game, ok)
    BY DEF ActionsFavorite
  <2>2. action.game \in Games
    BY <1>1, ActionGame
  <2>3. QED
    BY <1>2, <1>3, <2>1, <2>2, WriteTypes DEF Write
<1>5. /\ recents' = recents /\ history' = history /\ search' = NoSearch
      /\ focus' = Cleared(closed)
  BY DEF ActionsFavorite
<1>6. FocusFits(moved, favorites', recents, search.results)
  <2>1. Len(favorites') \in Nat
    BY <1>4
  <2>2. QED
    BY <1>2, <2>1, RecountFits
<1> HIDE DEF moved
<1>7. FocusFits(closed, favorites', recents, search.results)
  BY <1>2, <1>6, FreshShows, ActionsFits
<1> HIDE DEF closed
<1>8. FocusFits(Cleared(closed), favorites', recents, <<>>)
  BY <1>2, <1>7, ClearFits
<1>9. QED
  BY <1>2, <1>3, <1>4, <1>5, <1>8 DEF ListsAfter, NoSearch

\* The list under the search is made of games, and so is what a search makes of it.
LEMMA SearchLists ==
  ASSUME IInv, phase = "ready", UNCHANGED <<favorites, recents, stored, history>>,
         NEW query \in Seq(Chars), Search(query, Shown(Source))
  PROVE  ListsAfter
<1>1. /\ FocusFits(focus, favorites, recents, search.results) /\ catalog \in Seq(Entries)
      /\ favorites \in Seq(Games) /\ recents \in Seq(Games)
      /\ Source \in Lists \cup {NoList}
  BY Ready
<1>2. stored \in Seq(Games) /\ history \in Seq(Games)
  BY DEF IInv, DataTypes
<1>3. Shown(Source) \in Seq(Games) /\ Shown(Source) = Contents(Source, favorites', recents')
  BY <1>1, ContentsTypes DEF Shown
<1> DEFINE made == Rebuilt(query, Shown(Source))
<1>4. search' = made /\ focus' = [focus EXCEPT !["search"] = Recounted(@, Len(made.results), Rows)]
  BY DEF Search
<1>5. Len(made.results) \in Nat
  BY <1>1, <1>3, RebuiltFacts
<1>6. search' = Rebuilt(query, Contents(Source, favorites', recents'))
  BY <1>3, <1>4
<1> HIDE DEF made
<1>7. FocusFits(focus', favorites, recents, made.results)
  BY <1>1, <1>4, <1>5, RecountFits
<1>8. QED
  BY <1>1, <1>2, <1>4, <1>6, <1>7 DEF ListsAfter

\* Typing makes the results of the list under the search again.
LEMMA SearchTypeLists ==
  ASSUME IInv, SearchType
  PROVE  ListsAfter
<1>1. phase = "ready" /\ UNCHANGED <<favorites, recents, stored, history>>
  BY DEF SearchType, At, listVars, dataVars
<1>2. search.query \in Seq(Chars)
  BY <1>1, Ready
<1>3. PICK query \in {Append(search.query, c) : c \in Chars}
                 \cup {IF search.query = <<>> THEN <<>>
                       ELSE SubSeq(search.query, 1, Len(search.query) - 1)} :
       Search(query, Shown(Source))
  BY DEF SearchType
<1>4. query \in Seq(Chars)
  <2> DEFINE q == search.query
  <2> HIDE DEF q
  <2>1. q \in Seq(Chars)
    BY <1>2 DEF q
  <2>2. \A c \in Chars : Append(q, c) \in Seq(Chars)
    BY <2>1
  <2>3. q # <<>> => SubSeq(q, 1, Len(q) - 1) \in Seq(Chars)
    BY <2>1
  <2>4. query \in {Append(q, c) : c \in Chars}
                   \cup {IF q = <<>> THEN <<>> ELSE SubSeq(q, 1, Len(q) - 1)}
    BY DEF q
  <2>5. CASE query \in {Append(q, c) : c \in Chars}
    BY <2>2, <2>5
  <2>6. CASE query = IF q = <<>> THEN <<>> ELSE SubSeq(q, 1, Len(q) - 1)
    <3>1. <<>> \in Seq(Chars)
      OBVIOUS
    <3>2. QED
      BY <2>3, <2>6, <3>1
  <2>7. QED
    BY <2>4, <2>5, <2>6
<1>5. QED
  BY <1>1, <1>3, <1>4, SearchLists

\* A toggle with Y recounts the favorites and makes an applied search again.
LEMMA ToggleFavoriteLists ==
  ASSUME IInv, ToggleFavorite
  PROVE  ListsAfter
<1> DEFINE games == Contents(Source, favorites', recents)
           made == Rebuilt(search.query, games)
           moved == [focus EXCEPT !["favorites"] = Recounted(@, Len(favorites'), Rows)]
           found == [moved EXCEPT !["search"] = Recounted(@, Len(made.results), Rows)]
<1>1. phase = "ready" /\ SelectedGame # None
  BY DEF ToggleFavorite, At
<1>2. /\ FocusFits(focus, favorites, recents, search.results) /\ catalog \in Seq(Entries)
      /\ favorites \in Seq(Games) /\ recents \in Seq(Games) /\ CatalogInOrder
      /\ system \in 1..Len(catalog) \/ system = 1
      /\ Source \in Lists \cup {NoList} /\ search.query \in Seq(Chars)
  BY <1>1, Ready
<1>3. stored \in Seq(Games) /\ history \in Seq(Games)
  BY DEF IInv, DataTypes
<1>4. favorites' \in Seq(Games) /\ stored' \in Seq(Games)
  <2>1. PICK ok \in BOOLEAN : Write(SelectedGame, ok)
    BY DEF ToggleFavorite
  <2>2. SelectedGame \in Games
    BY <1>1, <1>2, SelectedGameTypes
  <2>3. QED
    BY <1>2, <1>3, <2>1, <2>2, WriteTypes DEF Write
<1>5. /\ recents' = recents /\ history' = history
      /\ search' = IF search.active THEN made ELSE search
      /\ focus' = IF search.active THEN found ELSE moved
  BY DEF ToggleFavorite
<1>6. games \in Seq(Games)
  BY <1>2, <1>4, ContentsTypes
<1> HIDE DEF games
<1>7. Len(made.results) \in Nat
  BY <1>2, <1>6, RebuiltFacts
<1> HIDE DEF made
<1>8. FocusFits(moved, favorites', recents, search.results)
  <2>1. Len(favorites') \in Nat
    BY <1>4
  <2>2. QED
    BY <1>2, <2>1, RecountFits
<1> HIDE DEF moved
<1>9. FocusFits(found, favorites', recents, made.results)
  BY <1>2, <1>7, <1>8, RecountFits
<1> HIDE DEF found
<1>10. CASE search.active
  <2>1. search' = Rebuilt(search.query, Contents(Source, favorites', recents'))
    BY <1>5, <1>10 DEF made, games
  <2>2. QED
    BY <1>2, <1>3, <1>4, <1>5, <1>9, <1>10, <2>1 DEF ListsAfter
<1>11. CASE ~search.active
  BY <1>2, <1>3, <1>4, <1>5, <1>8, <1>11 DEF ListsAfter
<1>12. QED
  BY <1>10, <1>11

\* All the buttons that change lists or the search.
LEMMA ListStepLists ==
  ASSUME IInv, ListStep
  PROVE  ListsAfter
<1>1. phase = "ready"
  BY ListFrame DEF ReadOnce
<1>2. /\ FocusFits(focus, favorites, recents, search.results) /\ catalog \in Seq(Entries)
      /\ favorites \in Seq(Games) /\ recents \in Seq(Games)
      /\ search.query \in Seq(Chars)
  BY <1>1, Ready
<1>3. stored \in Seq(Games) /\ history \in Seq(Games)
  BY DEF IInv, DataTypes
<1>4. CASE SearchBack \/ Back \/ SwitchSystem
  <2>1. /\ UNCHANGED <<favorites, recents, stored, history>>
        /\ search' = NoSearch /\ focus' = Cleared(focus)
    BY <1>4 DEF SearchBack, Back, SwitchSystem, listVars, dataVars
  <2>2. FocusFits(Cleared(focus), favorites, recents, <<>>)
    BY <1>2, ClearFits
  <2>3. QED
    BY <1>2, <1>3, <2>1, <2>2 DEF ListsAfter, NoSearch
<1>5. CASE OpenSearch
  <2>1. /\ UNCHANGED <<favorites, recents, stored, history>>
        /\ Search(search.query, Shown(Source))
    BY <1>5 DEF OpenSearch, listVars, dataVars
  <2>2. QED
    BY <1>1, <1>2, <2>1, SearchLists
<1>6. QED
  BY <1>4, <1>5, RemoveConfirmLists, ActionsFavoriteLists, SearchTypeLists, ToggleFavoriteLists
     DEF ListStep

-----------------------------------------------------------------------------
(* LayersFit, and the types of what is on the screen                        *)

Outcomes == Games \cup {None, "switcher", "app", "restart"}

ViewOK ==
  /\ destination \in GameLists \cup {"root", "apps", "settings"}
  /\ layers \subseteq Range(Priority) /\ button \in {0, 1}
  /\ spent \subseteq Dialogs
  /\ outcome \in Outcomes
  /\ action \in [game : Games \cup {None}, recent : BOOLEAN]

\* What is open and asked for is of its types.
LEMMA ViewTyped ==
  ASSUME IInv
  PROVE  ViewOK
BY DEF IInv, TypeOK, ViewTypes, ViewOK, Outcomes

\* The layers the dispatch knows.
LEMMA PriorityLayers ==
  {"reset", "rollback", "remove", "actions", "update", "signOut", "form", "search", "quick"}
    \subseteq Range(Priority)
<1>1. /\ 1 \in DOMAIN Priority /\ 2 \in DOMAIN Priority /\ 3 \in DOMAIN Priority
      /\ 4 \in DOMAIN Priority /\ 5 \in DOMAIN Priority /\ 6 \in DOMAIN Priority
      /\ 7 \in DOMAIN Priority /\ 8 \in DOMAIN Priority /\ 9 \in DOMAIN Priority
      /\ Priority[1] = "reset" /\ Priority[2] = "rollback" /\ Priority[3] = "remove"
      /\ Priority[4] = "actions" /\ Priority[5] = "update" /\ Priority[6] = "signOut"
      /\ Priority[7] = "form" /\ Priority[8] = "search" /\ Priority[9] = "quick"
  BY DEF Priority
<1>2. QED
  BY <1>1 DEF Range

\* What stays when the shell leaves fits its types.
LEMMA LeaveView ==
  ASSUME IInv, phase = "ready", NEW what \in Outcomes, Leave(what)
  PROVE  ViewOK' /\ LayersFit'
<1>1. /\ UNCHANGED <<destination, layers, button, action, spent>>
      /\ outcome' = what /\ phase' = "left"
  BY LeaveFrame DEF viewVars, layerVars
<1>2. ViewOK
  BY ViewTyped
<1>3. QED
  BY <1>1, <1>2 DEF ViewOK, LayersFit

\* A dialog is asked over what is open.
LEMMA AskView ==
  ASSUME IInv, phase = "ready", NEW dialog \in Dialogs, Ask(dialog),
         dialog = "remove" => "actions" \in layers
  PROVE  ViewOK' /\ LayersFit'
<1>1. /\ UNCHANGED <<destination, action, spent, outcome, continue, recents, phase>>
      /\ layers' = layers \cup {dialog} /\ button' = 0
  BY DEF Ask, viewVars, restVars, listVars, loadVars
<1>2. ViewOK /\ LayersFit
  BY ViewTyped DEF IInv
<1>3. dialog \in Range(Priority) /\ dialog \notin {"actions", "search"}
  BY PriorityLayers DEF Dialogs
<1>4. QED
  BY <1>1, <1>2, <1>3 DEF ViewOK, LayersFit

\* Something other than the actions is closed.
LEMMA CloseView ==
  ASSUME IInv, phase = "ready", NEW layer, layer # "actions", layers' = layers \ {layer},
         UNCHANGED <<destination, action, outcome, continue, recents, phase>>,
         button' \in {0, 1}, spent' \subseteq Dialogs
  PROVE  ViewOK' /\ LayersFit'
<1>1. ViewOK /\ LayersFit
  BY ViewTyped DEF IInv
<1>2. QED
  BY <1>1 DEF ViewOK, LayersFit

\* What is open fits after a button that changes no list.
LEMMA QuietView ==
  ASSUME IInv, QuietStep
  PROVE  ViewOK' /\ LayersFit'
<1> USE DEF At
<1>1. phase = "ready" /\ ViewOK /\ LayersFit
  BY ViewTyped, QuietFrame DEF IInv, ReadOnce
<1>2. CASE DialogStep
  <2>1. /\ UNCHANGED <<destination, layers, action, spent, outcome, continue, recents, phase>>
        /\ button' = 1 - button
    BY <1>2 DEF DialogStep, viewVars, restVars, listVars, loadVars
  <2>2. button' \in {0, 1}
    BY <1>1, <2>1 DEF ViewOK
  <2>3. QED
    BY <1>1, <2>1, <2>2 DEF ViewOK, LayersFit
<1>3. CASE DialogClose
  <2>1. /\ UNCHANGED <<destination, action, spent, outcome, continue, recents, phase>>
        /\ layers' = layers \ {OnTop} /\ button' = 0 /\ OnTop # "actions"
    BY <1>3 DEF DialogClose, Dialogs, viewVars, restVars, listVars, loadVars
  <2>2. QED
    BY <1>1, <2>1, CloseView DEF ViewOK
<1>4. CASE DialogConfirm
  <2>1. /\ UNCHANGED <<destination, action, outcome, continue, recents, phase>>
        /\ layers' = layers \ {OnTop} /\ button' = 0 /\ OnTop # "actions"
        /\ OnTop \in Dialogs /\ spent' \in {spent, spent \cup {OnTop}}
    BY <1>4 DEF DialogConfirm, Dialogs, viewVars, restVars, listVars, loadVars
  <2>2. spent' \subseteq Dialogs
    BY <1>1, <2>1 DEF ViewOK
  <2>3. QED
    BY <1>1, <2>1, <2>2, CloseView
<1>5. CASE ActionsPlay
  <2>1. action.game \in Outcomes /\ Leave(action.game)
    BY <1>1, <1>5 DEF ActionsPlay, ViewOK, Outcomes
  <2>2. QED
    BY <1>1, <2>1, LeaveView
<1>6. CASE ActionsRemove
  <2>1. Ask("remove") /\ OnTop = "actions"
    BY <1>6 DEF ActionsRemove, Ask
  <2>2. QED
    BY <1>1, <2>1, ActionGame, AskView DEF Dialogs
<1>7. CASE FormBack \/ FormSubmit \/ FirstRunDone \/ QuickClose
  <2>1. PICK layer \in {"form", "firstRun", "quick"} : Close(layer)
    BY <1>7 DEF FormBack, FormSubmit, FirstRunDone, QuickClose
  <2>2. /\ UNCHANGED <<destination, action, outcome, continue, recents, phase, button, spent>>
        /\ layers' = layers \ {layer}
    BY <2>1 DEF Close, viewVars, listVars, loadVars
  <2>3. QED
    BY <1>1, <2>2, CloseView DEF ViewOK
<1>8. CASE Switcher
  BY <1>1, <1>8, LeaveView DEF Switcher, Outcomes
<1>9. CASE QuickToggle
  <2>1. /\ UNCHANGED <<destination, action, button, spent, outcome, continue, recents, phase>>
        /\ layers' \in {layers \ {"quick"}, (layers \ {"search"}) \cup {"quick"}}
    BY <1>9 DEF QuickToggle, viewVars, restVars, listVars, loadVars
  <2>2. QED
    BY <1>1, <2>1, PriorityLayers DEF ViewOK, LayersFit
<1>10. CASE OpenSettings
  <2>1. /\ UNCHANGED <<action, button, spent, outcome, continue, recents, phase>>
        /\ layers' = layers \ {"quick"} /\ destination' = "settings" /\ OnTop = "quick"
    BY <1>10 DEF OpenSettings, restVars, listVars, loadVars
  <2>2. "search" \notin layers
    BY <1>1, <2>1, OnTopFacts DEF ViewOK
  <2>3. QED
    BY <1>1, <2>1, <2>2 DEF ViewOK, LayersFit
<1>11. CASE SearchApply
  <2>1. /\ UNCHANGED <<destination, action, outcome, continue, recents, phase, button, spent>>
        /\ layers' = layers \ {"search"}
    BY <1>11 DEF SearchApply, viewVars, restVars, listVars, loadVars
  <2>2. QED
    BY <1>1, <2>1, CloseView DEF ViewOK
<1>12. ASSUME NEW place \in GameLists \cup {"apps", "settings"}, destination = "root", GoTo(place)
       PROVE  ViewOK' /\ LayersFit'
  <2>1. /\ UNCHANGED <<layers, action, button, spent, outcome, continue, recents, phase>>
        /\ destination' = place
    BY <1>12 DEF GoTo, layerVars, restVars, listVars, loadVars
  <2>2. "search" \notin layers
    BY <1>1, <1>12 DEF LayersFit, GameLists
  <2>3. QED
    BY <1>1, <1>12, <2>1, <2>2 DEF ViewOK, LayersFit
<1>13. CASE SafeMenu
  <2>1. CASE GoTo("games")
    BY <1>12, <1>13, <2>1 DEF SafeMenu, GameLists
  <2>2. CASE \E dialog \in {"rollback", "reset"} \ spent : Ask(dialog)
    BY <1>1, <2>2, AskView DEF Dialogs
  <2>3. CASE Leave("restart")
    BY <1>1, <2>3, LeaveView DEF Outcomes
  <2>4. QED
    BY <1>13, <2>1, <2>2, <2>3 DEF SafeMenu
<1>14. CASE RootFocus
  <2>1. /\ UNCHANGED <<destination, layers, action, button, spent, outcome, recents, phase>>
        /\ continue' = (~continue /\ recents # <<>>)
    BY <1>14 DEF RootFocus, viewVars, layerVars, listVars, loadVars
  <2>2. QED
    BY <1>1, <2>1 DEF ViewOK, LayersFit
<1>15. CASE RootOpen
  <2>1. CASE continue
    <3>1. recents \in Seq(Games) /\ recents # <<>> /\ Leave(recents[1])
      BY <1>1, <1>15, <2>1 DEF RootOpen, LayersFit, IInv, DataTypes
    <3>2. recents[1] \in Outcomes
      BY <3>1 DEF Outcomes
    <3>3. QED
      BY <1>1, <3>1, <3>2, LeaveView
  <2>2. CASE ~continue
    BY <1>12, <1>15, <2>2 DEF RootOpen, GameLists
  <2>3. QED
    BY <2>1, <2>2
<1>16. CASE SettingsOpen
  <2>1. CASE \E dialog \in {"update", "signOut"} : Ask(dialog)
    BY <1>1, <2>1, AskView DEF Dialogs
  <2>2. CASE ~\E dialog \in {"update", "signOut"} : Ask(dialog)
    <3>1. /\ UNCHANGED <<destination, action, button, spent, outcome, continue, recents, phase>>
          /\ layers' = layers \cup {"form"}
      BY <1>16, <2>2 DEF SettingsOpen, viewVars, restVars, listVars, loadVars
    <3>2. QED
      BY <1>1, <3>1, PriorityLayers DEF ViewOK, LayersFit
  <2>3. QED
    BY <2>1, <2>2
<1>17. CASE Play
  <2>1. /\ FocusFits(focus, favorites, recents, search.results) /\ catalog \in Seq(Entries)
        /\ favorites \in Seq(Games) /\ recents \in Seq(Games) /\ CatalogInOrder
        /\ system \in 1..Len(catalog) \/ system = 1
    BY <1>1, Ready
  <2>2. CASE Leave(SelectedGame)
    <3>1. SelectedGame \in Outcomes
      BY <2>1, SelectedGameTypes DEF Outcomes
    <3>2. QED
      BY <1>1, <2>2, <3>1, LeaveView
  <2>3. CASE Source # NoList /\ focus[Source].count > 0
             /\ Leave(Shown(Source)[focus[Source].selected + 1])
    <3>1. Shown(Source) \in Seq(Games)
      BY <2>1, ContentsTypes DEF Shown
    <3>2. /\ focus[Source] \in Focus /\ Visible(focus[Source], Rows)
          /\ focus[Source].count = Len(Shown(Source))
      BY <2>1, <2>3, SourceCounted
    <3>3. Shown(Source)[focus[Source].selected + 1] \in Outcomes
      BY <2>3, <3>1, <3>2, SelectedAt DEF Outcomes
    <3>4. QED
      BY <1>1, <2>3, <3>3, LeaveView
  <2>4. CASE Leave("app")
    BY <1>1, <2>4, LeaveView DEF Outcomes
  <2>5. QED
    BY <1>17, <2>2, <2>3, <2>4 DEF Play
<1>18. QED
  BY <1>2, <1>3, <1>4, <1>5, <1>6, <1>7, <1>8, <1>9, <1>10, <1>11, <1>13,
     <1>14, <1>15, <1>16, <1>17 DEF QuietStep

\* What is open fits after a button that moves a focus.
LEMMA FocusView ==
  ASSUME IInv, FocusStep
  PROVE  ViewOK' /\ LayersFit'
<1>1. /\ phase = "ready" /\ phase' = "ready" /\ ViewOK /\ LayersFit
      /\ UNCHANGED <<destination, button, spent, outcome, continue, recents>>
  BY ViewTyped, FocusFrame DEF IInv, ReadOnce, restVars, listVars
<1>2. CASE UNCHANGED <<layers, action>>
  BY <1>1, <1>2 DEF ViewOK, LayersFit
<1>3. CASE ActionsBack
  <2>1. layers' = layers \ {"actions"} /\ action' = NoAction /\ OnTop = "actions"
    BY <1>3 DEF ActionsBack, At
  <2>2. "remove" \notin layers
    BY <1>1, <2>1, OnTopFacts DEF ViewOK
  <2>3. NoAction \in [game : Games \cup {None}, recent : BOOLEAN]
    BY DEF NoAction
  <2>4. QED
    BY <1>1, <2>1, <2>2, <2>3 DEF ViewOK, LayersFit
<1>4. CASE OpenActions
  <2>1. /\ layers' = layers \cup {"actions"} /\ SelectedGame # None
        /\ action' = [game |-> SelectedGame, recent |-> destination = "recent"]
    BY <1>4 DEF OpenActions
  <2>2. SelectedGame \in Games
    <3>1. /\ FocusFits(focus, favorites, recents, search.results) /\ catalog \in Seq(Entries)
          /\ favorites \in Seq(Games) /\ recents \in Seq(Games) /\ CatalogInOrder
          /\ system \in 1..Len(catalog) \/ system = 1
      BY <1>1, Ready
    <3>2. QED
      BY <2>1, <3>1, SelectedGameTypes
  <2>3. action'.game = SelectedGame /\ action' \in [game : Games \cup {None}, recent : BOOLEAN]
    BY <2>1, <2>2
  <2>4. QED
    BY <1>1, <2>1, <2>2, <2>3, PriorityLayers DEF ViewOK, LayersFit
<1>5. QED
  BY <1>2, <1>3, <1>4 DEF FocusStep, ActionsStep, Scroll, SettingsScroll, layerVars

\* What is open fits after a button that changes a list or the search.
LEMMA ListView ==
  ASSUME IInv, ListStep
  PROVE  ViewOK' /\ LayersFit'
<1>1. /\ phase = "ready" /\ phase' = "ready" /\ ViewOK /\ LayersFit
      /\ UNCHANGED <<spent, outcome>>
  BY ViewTyped, ListFrame DEF IInv, ReadOnce
<1>2. NoAction \in [game : Games \cup {None}, recent : BOOLEAN]
  BY DEF NoAction
<1>3. CASE RemoveConfirm
  <2>1. /\ layers' = layers \ {"remove", "actions"} /\ action' = NoAction /\ button' = 0
        /\ destination' = destination /\ continue' = (continue /\ recents' # <<>>)
    BY <1>3 DEF RemoveConfirm
  <2>2. QED
    BY <1>1, <1>2, <2>1 DEF ViewOK, LayersFit
<1>4. CASE ActionsFavorite
  <2>1. /\ layers' = layers \ {"actions"} /\ action' = NoAction /\ OnTop = "actions"
        /\ UNCHANGED <<destination, continue, recents, button>>
    BY <1>4 DEF ActionsFavorite, At, restVars
  <2>2. "remove" \notin layers
    BY <1>1, <2>1, OnTopFacts DEF ViewOK
  <2>3. QED
    BY <1>1, <1>2, <2>1, <2>2 DEF ViewOK, LayersFit
<1>5. CASE SearchType \/ SwitchSystem \/ ToggleFavorite
  <2>1. UNCHANGED <<destination, layers, button, action, continue, recents>>
    BY <1>5 DEF SearchType, SwitchSystem, ToggleFavorite, layerVars, restVars, listVars
  <2>2. QED
    BY <1>1, <2>1 DEF ViewOK, LayersFit
<1>6. CASE SearchBack
  <2>1. /\ layers' = layers \ {"search"}
        /\ UNCHANGED <<destination, button, action, continue, recents>>
    BY <1>6 DEF SearchBack, restVars, listVars
  <2>2. QED
    BY <1>1, <2>1 DEF ViewOK, LayersFit
<1>7. CASE Back
  <2>1. /\ destination' = "root" /\ OnTop = "page"
        /\ UNCHANGED <<layers, button, action, continue, recents>>
    BY <1>7 DEF Back, At, layerVars, restVars, listVars
  <2>2. layers = {}
    BY <1>1, <2>1, OnTopFacts DEF ViewOK
  <2>3. QED
    BY <1>1, <2>1, <2>2 DEF ViewOK, LayersFit
<1>8. CASE OpenSearch
  <2>1. /\ layers' = layers \cup {"search"} /\ destination \in GameLists
        /\ UNCHANGED <<destination, button, action, continue, recents>>
    BY <1>8 DEF OpenSearch, restVars, listVars
  <2>2. QED
    BY <1>1, <2>1, PriorityLayers DEF ViewOK, LayersFit
<1>9. QED
  BY <1>3, <1>4, <1>5, <1>6, <1>7, <1>8 DEF ListStep

-----------------------------------------------------------------------------
(* What the buttons keep                                                    *)

\* After any button every focus fits its list.
LEMMA UserFits ==
  ASSUME IInv, UserStep
  PROVE  FocusFits(focus', favorites', recents', search'.results)
<1>1. CASE QuietStep
  <2>1. phase = "ready" /\ UNCHANGED <<focus, favorites, recents, search>>
    BY <1>1, QuietFrame DEF ReadOnce, listVars
  <2>2. FocusFits(focus, favorites, recents, search.results)
    BY <2>1, Ready
  <2>3. QED
    BY <2>1, <2>2
<1>2. CASE FocusStep
  BY <1>2, FocusStepShows
<1>3. CASE ListStep
  BY <1>3, ListStepLists DEF ListsAfter
<1>4. QED
  BY <1>1, <1>2, <1>3 DEF UserStep

\* What is on the screen has a focus in order after any button.
LEMMA UserFocus ==
  ASSUME IInv, UserStep
  PROVE  FocusShown' /\ SettingsListed' /\ focus' \in [Lists -> Focus]
BY UserFits, UserFrame, FocusFitsNext DEF ReadOnce

\* The search after any button is the one before it, none, or one of the list
\* of a destination that lists games and stays where it is.
LEMMA UserSearches ==
  ASSUME IInv, UserStep
  PROVE  /\ catalog' = catalog /\ favorites' \in Seq(Games) /\ recents' \in Seq(Games)
         /\ stored' \in Seq(Games) /\ history' \in Seq(Games)
         /\ \/ search' = NoSearch
            \/ ~search.active /\ search' = search
            \/ /\ UNCHANGED <<search, favorites, recents, system>>
               /\ \/ destination' \in {destination, "settings"}
                  \/ destination = "root"
            \/ /\ UNCHANGED <<destination, system>> /\ destination \in GameLists
               /\ \E query \in Seq(Chars) :
                    search' = Rebuilt(query, Contents(Source, favorites', recents'))
<1>1. /\ catalog' = catalog /\ phase = "ready"
      /\ favorites \in Seq(Games) /\ recents \in Seq(Games)
      /\ stored \in Seq(Games) /\ history \in Seq(Games)
  BY UserFrame DEF ReadOnce, IInv, DataTypes
<1>2. CASE QuietStep
  <2>1. UNCHANGED <<stored, history, favorites, recents, system, search>>
    BY <1>2, QuietFrame DEF dataVars, listVars
  <2>2. destination' \in {destination, "settings"} \/ destination = "root"
    <3>1. CASE SafeMenu \/ RootOpen
      BY <3>1 DEF SafeMenu, RootOpen
    <3>2. CASE OpenSettings
      BY <3>2 DEF OpenSettings
    <3>3. CASE ActionsPlay \/ Switcher \/ Play
      BY <3>3 DEF ActionsPlay, Switcher, Play, Leave, viewVars
    <3>4. CASE FormBack \/ FormSubmit \/ FirstRunDone \/ QuickClose
      BY <3>4 DEF FormBack, FormSubmit, FirstRunDone, QuickClose, Close, viewVars
    <3>5. CASE DialogStep \/ DialogClose \/ DialogConfirm \/ ActionsRemove \/ QuickToggle
               \/ SearchApply \/ RootFocus
      BY <3>5 DEF DialogStep, DialogClose, DialogConfirm, ActionsRemove, QuickToggle,
                  SearchApply, RootFocus, viewVars
    <3>6. CASE SettingsOpen
      BY <3>6 DEF SettingsOpen, Ask, viewVars
    <3>7. QED
      BY <1>2, <3>1, <3>2, <3>3, <3>4, <3>5, <3>6 DEF QuietStep
  <2>3. QED
    BY <1>1, <2>1, <2>2
<1>3. CASE FocusStep
  BY <1>1, <1>3, FocusFrame DEF dataVars, listVars
<1>4. CASE ListStep
  <2>1. ListsAfter
    BY <1>4, ListStepLists
  <2>2. \/ search' = NoSearch
        \/ UNCHANGED <<destination, system>> /\ destination \in GameLists
    <3>1. CASE RemoveConfirm \/ ActionsFavorite \/ SearchBack \/ Back \/ SwitchSystem
      BY <3>1 DEF RemoveConfirm, ActionsFavorite, SearchBack, Back, SwitchSystem
    <3>2. CASE OpenSearch \/ ToggleFavorite
      BY <3>2 DEF OpenSearch, ToggleFavorite
    <3>3. CASE SearchType
      <4>1. UNCHANGED <<destination, system>> /\ OnTop = "search"
        BY <3>3 DEF SearchType, At
      <4>2. "search" \in layers
        BY <4>1, OnTopFacts DEF IInv, TypeOK
      <4>3. QED
        BY <1>1, <4>1, <4>2 DEF IInv, LayersFit
    <3>4. QED
      BY <1>4, <3>1, <3>2, <3>3 DEF ListStep
  <2>3. QED
    BY <1>1, <2>1, <2>2 DEF ListsAfter
<1>5. QED
  BY <1>2, <1>3, <1>4 DEF UserStep

\* After any button the search is of what is under it, and its results are the
\* games that match.
LEMMA UserResults ==
  ASSUME IInv, UserStep
  PROVE  SearchFits' /\ ResultsAreOfList'
         /\ search' \in [query : Seq(Chars), active : BOOLEAN,
                         from : Lists \cup {NoList}, results : Seq(Nat)]
<1> DEFINE Searches == [query : Seq(Chars), active : BOOLEAN,
                           from : Lists \cup {NoList}, results : Seq(Nat)]
<1>1. /\ phase = "ready" /\ catalog \in Seq(Entries)
      /\ Source \in Lists \cup {NoList}
  BY UserFrame, Ready DEF ReadOnce
<1>2. /\ search \in Searches /\ SearchFits /\ ResultsAreOfList
  BY DEF IInv, ViewTypes
<1>3. /\ catalog' = catalog /\ favorites' \in Seq(Games) /\ recents' \in Seq(Games)
  BY UserSearches
<1>4. CASE search' = NoSearch
  <2>1. NoSearch \in Searches /\ ~NoSearch.active
    BY DEF NoSearch
  <2>2. QED
    BY <1>4, <2>1 DEF SearchFits, ResultsAreOfList
<1>5. CASE ~search.active /\ search' = search
  BY <1>2, <1>5 DEF SearchFits, ResultsAreOfList
<1>6. CASE /\ UNCHANGED <<search, favorites, recents, system>>
           /\ \/ destination' \in {destination, "settings"}
              \/ destination = "root"
  <2> SUFFICES ASSUME search.active
               PROVE  SearchFits' /\ ResultsAreOfList'
    BY <1>2, <1>6 DEF SearchFits, ResultsAreOfList
  <2>1. destination # "root"
    BY <1>1, <1>2 DEF SearchFits, GameLists
  <2>2. Shown(search.from)' = Shown(search.from)
    BY <1>3, <1>6 DEF Shown, Contents, GamesOf
  <2>3. [i \in DOMAIN search.results |-> PointedAt(Shown(search.from), search.results[i])]
          = Kept(Shown(search.from), Hits(search.query))
    BY <1>1, <1>2 DEF ResultsAreOfList, Hits
  <2>4. ([i \in DOMAIN search.results |-> PointedAt(Shown(search.from), search.results[i])]
          = Kept(Shown(search.from), Hits(search.query)))'
    BY <1>6, <2>2, <2>3 DEF PointedAt, Hits
  <2>5. CASE destination' = destination
    <3>1. Source' = Source
      BY <1>3, <1>6, <2>5 DEF Source
    <3>2. Source \in {search.from, NoList} /\ SearchFits
      BY <1>1, <1>2 DEF ResultsAreOfList
    <3>3. QED
      BY <1>1, <1>6, <2>4, <2>5, <3>1, <3>2 DEF SearchFits, ResultsAreOfList, Hits
  <2>6. CASE destination' = "settings"
    <3>1. Source' = NoList
      BY <2>6 DEF Source
    <3>2. destination' \notin GameLists
      BY <2>6 DEF GameLists
    <3>3. QED
      BY <2>4, <2>6, <3>1, <3>2 DEF SearchFits, ResultsAreOfList, Hits
  <2>7. QED
    BY <1>6, <2>1, <2>5, <2>6
<1>7. CASE /\ UNCHANGED <<destination, system>> /\ destination \in GameLists
           /\ \E query \in Seq(Chars) :
                search' = Rebuilt(query, Contents(Source, favorites', recents'))
  <2> DEFINE games == Contents(Source, favorites', recents')
  <2>1. PICK query \in Seq(Chars) : search' = Rebuilt(query, games)
    BY <1>7
  <2>2. games \in Seq(Games)
    BY <1>1, <1>3, ContentsTypes
  <2>3. Source' = Source
    BY <1>3, <1>7 DEF Source
  <2>4. Shown(Source)' = games
    BY <1>3, <2>3 DEF Shown, Contents, GamesOf
  <2> HIDE DEF games
  <2>5. /\ search' \in Searches /\ search'.from = Source /\ search'.query = query
        /\ [i \in DOMAIN search'.results |-> PointedAt(games, search'.results[i])]
             = Kept(games, Hits(query))
    BY <1>1, <2>1, <2>2, RebuiltFacts
  <2>6. Shown(search.from)' = games
    BY <2>3, <2>4, <2>5 DEF Shown
  <2>7. ([i \in DOMAIN search.results |-> PointedAt(Shown(search.from), search.results[i])]
          = Kept(Shown(search.from), Hits(search.query)))'
    BY <2>5, <2>6 DEF PointedAt, Hits
  <2>8. QED
    BY <1>7, <2>3, <2>5, <2>7 DEF SearchFits, ResultsAreOfList, Hits
<1>8. QED
  BY <1>4, <1>5, <1>6, <1>7, UserSearches

-----------------------------------------------------------------------------
(* FavoritesStored                                                          *)

\* A value that is added to a list comes after all others.
LEMMA AppendFacts ==
  ASSUME NEW X, NEW s \in Seq(X), NEW x \in X
  PROVE  /\ Range(Append(s, x)) = Range(s) \cup {x}
         /\ IsInjective(s) /\ x \notin Range(s) => IsInjective(Append(s, x))
         /\ \A a, b : Before(s, a, b) => Before(Append(s, x), a, b)
         /\ \A a \in Range(s) : Before(Append(s, x), a, x)
         /\ \A a, b : Before(Append(s, x), a, b) =>
              Before(s, a, b) \/ (a \in Range(s) /\ b = x)
<1> DEFINE t == Append(s, x)
           n == Len(s)
<1>1. n \in Nat /\ DOMAIN s = 1..n
  OBVIOUS
<1>2. DOMAIN t = 1..n + 1 /\ t[n + 1] = x /\ \A i \in 1..n : t[i] = s[i]
  OBVIOUS
<1> HIDE DEF t, n
<1>3. Range(t) = Range(s) \cup {x}
  <2>1. \A i \in 1..n + 1 : i \in 1..n \/ i = n + 1
    BY <1>1
  <2>2. n + 1 \in 1..n + 1 /\ \A i \in 1..n : i \in 1..n + 1
    BY <1>1
  <2>3. QED
    BY <1>1, <1>2, <2>1, <2>2 DEF Range
<1>4. ASSUME IsInjective(s), x \notin Range(s)
      PROVE  IsInjective(t)
  <2>1. ASSUME NEW i \in 1..n + 1, NEW j \in 1..n + 1, t[i] = t[j]
        PROVE  i = j
    <3>1. \A k \in 1..n : s[k] # x
      BY <1>1, <1>4 DEF Range
    <3>2. (i \in 1..n \/ i = n + 1) /\ (j \in 1..n \/ j = n + 1)
      BY <1>1
    <3>3. QED
      BY <1>1, <1>2, <1>4, <2>1, <3>1, <3>2 DEF IsInjective
  <2>2. QED
    BY <1>2, <2>1 DEF IsInjective
<1>5. ASSUME NEW a, NEW b, Before(s, a, b)
      PROVE  Before(t, a, b)
  <2>1. PICK i \in 1..n, j \in 1..n : i < j /\ s[i] = a /\ s[j] = b
    BY <1>1, <1>5 DEF Before
  <2>2. i \in 1..n + 1 /\ j \in 1..n + 1 /\ t[i] = a /\ t[j] = b
    BY <1>1, <1>2, <2>1
  <2>3. QED
    BY <1>2, <2>1, <2>2 DEF Before
<1>6. ASSUME NEW a \in Range(s)
      PROVE  Before(t, a, x)
  <2>1. PICK i \in 1..n : s[i] = a
    BY <1>1 DEF Range
  <2>2. i \in 1..n + 1 /\ n + 1 \in 1..n + 1 /\ i < n + 1 /\ t[i] = a
    BY <1>1, <1>2, <2>1
  <2>3. QED
    BY <1>2, <2>2 DEF Before
<1>7. ASSUME NEW a, NEW b, Before(t, a, b)
      PROVE  Before(s, a, b) \/ (a \in Range(s) /\ b = x)
  <2>1. PICK i \in 1..n + 1, j \in 1..n + 1 : i < j /\ t[i] = a /\ t[j] = b
    BY <1>2, <1>7 DEF Before
  <2>2. i \in 1..n /\ (j \in 1..n \/ j = n + 1)
    BY <1>1, <2>1
  <2>3. s[i] = a /\ a \in Range(s)
    BY <1>1, <1>2, <2>1, <2>2 DEF Range
  <2>4. CASE j = n + 1
    BY <1>2, <2>1, <2>3, <2>4
  <2>5. CASE j \in 1..n
    BY <1>1, <1>2, <2>1, <2>2, <2>3, <2>5 DEF Before
  <2>6. QED
    BY <2>2, <2>4, <2>5
<1>8. QED
  BY <1>3, <1>4, <1>5, <1>6, <1>7 DEF t

\* The first values of a list come in its order.
LEMMA FirstFacts ==
  ASSUME NEW X, NEW s \in Seq(X), NEW n \in 0..Len(s)
  PROVE  /\ SubSeq(s, 1, n) \in Seq(X) /\ Len(SubSeq(s, 1, n)) = n
         /\ \A i \in 1..n : SubSeq(s, 1, n)[i] = s[i]
         /\ Range(SubSeq(s, 1, n)) \subseteq Range(s)
         /\ IsInjective(s) => IsInjective(SubSeq(s, 1, n))
         /\ \A a, b : Before(SubSeq(s, 1, n), a, b) => Before(s, a, b)
<1> DEFINE t == SubSeq(s, 1, n)
<1>1. Len(s) \in Nat /\ DOMAIN s = 1..Len(s) /\ \A i \in 1..n : i \in 1..Len(s)
  OBVIOUS
<1>2. t \in Seq(X) /\ Len(t) = n /\ DOMAIN t = 1..n /\ \A i \in 1..n : t[i] = s[i]
  OBVIOUS
<1> HIDE DEF t
<1>3. Range(t) \subseteq Range(s)
  BY <1>1, <1>2 DEF Range
<1>4. IsInjective(s) => IsInjective(t)
  BY <1>1, <1>2 DEF IsInjective
<1>5. \A a, b : Before(t, a, b) => Before(s, a, b)
  <2>1. ASSUME NEW a, NEW b, Before(t, a, b)
        PROVE  Before(s, a, b)
    <3>1. PICK i \in 1..n, j \in 1..n : i < j /\ t[i] = a /\ t[j] = b
      BY <1>2, <2>1 DEF Before
    <3>2. QED
      BY <1>1, <1>2, <3>1 DEF Before
  <2>2. QED
    BY <2>1
<1>6. QED
  BY <1>2, <1>3, <1>4, <1>5 DEF t

\* What a query of favorites or recent games returns of them.
LEMMA OrderedFacts ==
  ASSUME NEW list \in Seq(Games)
  PROVE  /\ Ordered(list) \in Seq(Games)
         /\ Range(Ordered(list)) \subseteq Range(list)
         /\ IsInjective(list) => IsInjective(Ordered(list))
         /\ \A a, b : Before(Ordered(list), a, b) => Before(list, a, b)
<1> DEFINE present == Kept(list, listed)
           n == Lesser(Len(present), ListCapacity)
<1>1. /\ present \in Seq(Games) /\ Range(present) \subseteq Range(list)
      /\ IsInjective(list) => IsInjective(present)
      /\ \A a, b : Before(present, a, b) => Before(list, a, b)
  BY KeptFacts
<1>2. Ordered(list) = SubSeq(present, 1, n)
  BY DEF Ordered
<1> HIDE DEF present
<1>3. n \in 0..Len(present)
  <2>1. Len(present) \in Nat /\ ListCapacity \in Nat
    BY <1>1, ShellAssumption
  <2>2. QED
    BY <2>1 DEF Lesser
<1> HIDE DEF n
<1>4. /\ SubSeq(present, 1, n) \in Seq(Games)
      /\ Range(SubSeq(present, 1, n)) \subseteq Range(present)
      /\ IsInjective(present) => IsInjective(SubSeq(present, 1, n))
      /\ \A a, b : Before(SubSeq(present, 1, n), a, b) => Before(present, a, b)
  BY <1>1, <1>3, FirstFacts
<1>5. QED
  BY <1>1, <1>2, <1>4

\* The favorites shown, of those stored, when these were not loaded.
Mirrored(favs, kept, missing) ==
  /\ IsInjective(favs)
  /\ Range(kept) \ missing \subseteq Range(favs)
  /\ Range(favs) \subseteq Range(kept)
  /\ \A g, h \in Range(favs) \ missing : Before(favs, g, h) => Before(kept, g, h)

\* A write keeps the favorites what is stored, whether it succeeds or not.
LEMMA WriteMirrors ==
  ASSUME favorites \in Seq(Games), stored \in Seq(Games), NEW x \in Games, NEW ok \in BOOLEAN,
         IsInjective(stored), Mirrored(favorites, stored, unloaded)
  PROVE  /\ IsInjective(StoredIf(x, ok))
         /\ Mirrored(FavoritesIf(x, ok), StoredIf(x, ok), unloaded)
<1> DEFINE favs == FavoritesIf(x, ok)
           kept == StoredIf(x, ok)
<1>1. CASE favs = favorites /\ kept = stored
  BY <1>1
<1>2. CASE favs = Kept(favorites, Games \ {x}) /\ kept = Kept(stored, Games \ {x})
  <2> DEFINE f == Kept(favorites, Games \ {x})
             s == Kept(stored, Games \ {x})
  <2>1. /\ Range(f) = Range(favorites) \cap (Games \ {x}) /\ IsInjective(f)
        /\ \A a, b : Before(f, a, b) => Before(favorites, a, b)
    BY KeptFacts DEF Mirrored
  <2>2. /\ Range(s) = Range(stored) \cap (Games \ {x}) /\ IsInjective(s)
        /\ \A a, b \in Games \ {x} : Before(stored, a, b) => Before(s, a, b)
    BY KeptFacts
  <2> HIDE DEF f, s
  <2>3. Mirrored(f, s, unloaded)
    BY <2>1, <2>2 DEF Mirrored
  <2>4. QED
    BY <1>2, <2>2, <2>3 DEF f, s
<1>3. CASE favs = Append(favorites, x) /\ kept = stored /\ x \in Range(stored) /\ x \notin Range(favorites)
  <2> DEFINE f == Append(favorites, x)
  <2>1. x \in unloaded
    BY <1>3 DEF Mirrored
  <2>2. /\ Range(f) = Range(favorites) \cup {x} /\ IsInjective(f)
        /\ \A a, b : Before(f, a, b) => Before(favorites, a, b) \/ b = x
    BY <1>3, AppendFacts DEF Mirrored
  <2> HIDE DEF f
  <2>3. Mirrored(f, stored, unloaded)
    BY <1>3, <2>1, <2>2 DEF Mirrored
  <2>4. QED
    BY <1>3, <2>3 DEF f
<1>4. CASE favs = Append(favorites, x) /\ kept = Append(stored, x) /\ x \notin Range(stored)
  <2> DEFINE f == Append(favorites, x)
             s == Append(stored, x)
  <2>1. x \notin Range(favorites)
    BY <1>4 DEF Mirrored
  <2>2. /\ Range(f) = Range(favorites) \cup {x} /\ IsInjective(f)
        /\ \A a, b : Before(f, a, b) => Before(favorites, a, b) \/ (a \in Range(favorites) /\ b = x)
    BY <2>1, AppendFacts DEF Mirrored
  <2>3. /\ Range(s) = Range(stored) \cup {x} /\ IsInjective(s)
        /\ \A a, b : Before(stored, a, b) => Before(s, a, b)
        /\ \A a \in Range(stored) : Before(s, a, x)
    BY <1>4, AppendFacts
  <2> HIDE DEF f, s
  <2>4. ASSUME NEW a \in Range(f) \ unloaded, NEW b \in Range(f) \ unloaded, Before(f, a, b)
        PROVE  Before(s, a, b)
    <3>1. CASE a \in Range(favorites) /\ b = x
      BY <2>3, <3>1 DEF Mirrored
    <3>2. CASE Before(favorites, a, b)
      <4>1. a \in Range(favorites) /\ b \in Range(favorites)
        BY <3>2 DEF Before, Range
      <4>2. QED
        BY <2>3, <3>2, <4>1 DEF Mirrored
    <3>3. QED
      BY <2>2, <2>4, <3>1, <3>2
  <2>5. Mirrored(f, s, unloaded)
    BY <2>2, <2>3, <2>4 DEF Mirrored
  <2>6. QED
    BY <1>4, <2>3, <2>5 DEF f, s
<1>5. QED
  BY <1>1, <1>2, <1>3, <1>4 DEF FavoritesIf, StoredIf

\* After any button the favorites are what is stored.
LEMMA UserFavorites ==
  ASSUME IInv, UserStep
  PROVE  FavoritesKept'
<1>1. /\ phase = "ready" /\ unloaded' = unloaded
      /\ favorites \in Seq(Games) /\ stored \in Seq(Games)
      /\ IsInjective(stored) /\ Mirrored(favorites, stored, unloaded)
  BY UserFrame DEF ReadOnce, IInv, DataTypes, FavoritesKept, Mirrored
<1>2. IsInjective(stored') /\ Mirrored(favorites', stored', unloaded')
  <2>1. CASE UNCHANGED <<favorites, stored>>
    BY <1>1, <2>1
  <2>2. ASSUME NEW g \in Games, NEW ok \in BOOLEAN, Write(g, ok)
        PROVE  IsInjective(stored') /\ Mirrored(favorites', stored', unloaded')
    BY <1>1, <2>2, WriteMirrors DEF Write
  <2>3. CASE ActionsFavorite
    <3>1. action.game \in Games
      BY <2>3, ActionGame DEF ActionsFavorite, At
    <3>2. QED
      BY <2>2, <2>3, <3>1 DEF ActionsFavorite
  <2>4. CASE ToggleFavorite
    <3>1. SelectedGame \in Games
      BY <1>1, <2>4, Ready, SelectedGameTypes DEF ToggleFavorite
    <3>2. QED
      BY <2>2, <2>4, <3>1 DEF ToggleFavorite
  <2>5. CASE QuietStep \/ FocusStep
    BY <2>1, <2>5, QuietFrame, FocusFrame DEF dataVars, listVars
  <2>6. CASE ListStep
    <3>1. CASE ~ActionsFavorite /\ ~ToggleFavorite
      BY <2>1, <2>6, <3>1 DEF ListStep, RemoveConfirm, SearchType, SearchBack, Back,
                              SwitchSystem, OpenSearch, dataVars, listVars
    <3>2. QED
      BY <2>3, <2>4, <3>1
  <2>7. QED
    BY <2>5, <2>6 DEF UserStep
<1>3. QED
  BY <1>2 DEF FavoritesKept, Mirrored

-----------------------------------------------------------------------------
(* A button keeps the invariant                                             *)

\* What was read is not touched.
LEMMA UserRead ==
  ASSUME IInv, UserStep
  PROVE  CatalogInOrder' /\ NotBegun' /\ NotShown' /\ PagesInOrder' /\ NoneLost' /\ LoadComplete'
<1>1. /\ phase = "ready" /\ phase' \in {"ready", "left"}
      /\ catalog' = catalog /\ throughout' = throughout /\ queried' = queried
  BY UserFrame DEF ReadOnce
<1>2. CatalogInOrder'
  BY <1>1 DEF IInv, CatalogInOrder
<1>3. NotBegun' /\ NotShown' /\ PagesInOrder' /\ NoneLost'
  BY <1>1 DEF NotBegun, NotShown, PagesInOrder, NoneLost
<1>4. /\ Loaded' = Loaded /\ CatalogGames' = CatalogGames
      /\ \A g : Unqueried(g)' <=> Unqueried(g)
  BY <1>1 DEF Loaded, CatalogGames, Unqueried
<1>5. LoadComplete'
  BY <1>1, <1>4 DEF IInv, LoadComplete
<1>6. QED
  BY <1>2, <1>3, <1>5

\* Only LEFT and RIGHT change the system, around those there are.
LEMMA UserSystem ==
  ASSUME IInv, UserStep
  PROVE  (system \in 1..Len(catalog) \/ system = 1)'
<1>1. /\ catalog' = catalog /\ catalog \in Seq(Entries)
      /\ system \in 1..Len(catalog) \/ system = 1
  BY UserFrame DEF ReadOnce, IInv, DataTypes, TypeOK
<1>2. CASE system' = system
  BY <1>1, <1>2
<1>3. CASE SwitchSystem
  <2>1. PICK d \in {-1, 1} :
          system' = IF Len(catalog) < 2 THEN system ELSE 1 + ((system - 1 + d) % Len(catalog))
    BY <1>3 DEF SwitchSystem
  <2>2. CASE Len(catalog) < 2
    BY <1>1, <2>1, <2>2
  <2>3. CASE ~(Len(catalog) < 2)
    <3>1. Len(catalog) \in Nat \ {0} /\ system - 1 + d \in Int
      BY <1>1, <2>3
    <3>2. (system - 1 + d) % Len(catalog) \in 0..Len(catalog) - 1
      BY <3>1
    <3> DEFINE rest == (system - 1 + d) % Len(catalog)
    <3> HIDE DEF rest
    <3>3. system' = 1 + rest /\ rest \in 0..Len(catalog) - 1
      BY <2>1, <2>3, <3>2 DEF rest
    <3>4. QED
      BY <1>1, <3>1, <3>3
  <2>4. QED
    BY <2>2, <2>3
<1>4. CASE QuietStep \/ FocusStep
  BY <1>2, <1>4, QuietFrame, FocusFrame
<1>5. CASE ListStep /\ ~SwitchSystem
  BY <1>2, <1>5 DEF ListStep, RemoveConfirm, ActionsFavorite, SearchType, SearchBack, Back,
                    OpenSearch, ToggleFavorite
<1>6. QED
  BY <1>3, <1>4, <1>5 DEF UserStep

\* The lists stay lists of games.
LEMMA UserTypes ==
  ASSUME IInv, UserStep
  PROVE  TypeOK' /\ DataTypes' /\ ViewTypes'
<1>1. /\ phase' \in {"ready", "left"}
      /\ UNCHANGED <<listed, queried, left, cursor, checked, taken, throughout, catalog>>
  BY UserFrame DEF ReadOnce
<1>2. /\ favorites' \in Seq(Games) /\ recents' \in Seq(Games)
      /\ stored' \in Seq(Games) /\ history' \in Seq(Games)
  BY UserSearches
<1>3. \A list \in Seq(Games) : Range(list) \subseteq Games
  BY DEF Range
<1>4. ViewOK'
  BY QuietView, FocusView, ListView DEF UserStep
<1>5. TypeOK'
  BY <1>1, <1>2, <1>3, <1>4, UserSystem DEF TypeOK, ViewOK, Outcomes
<1>6. DataTypes'
  BY <1>1, <1>2 DEF IInv, DataTypes
<1>7. ViewTypes'
  BY <1>4, UserFocus, UserResults DEF ViewTypes, ViewOK
<1>8. QED
  BY <1>5, <1>6, <1>7

\* Every button keeps the invariant.
LEMMA UserInvariant ==
  ASSUME IInv, UserStep
  PROVE  IInv'
<1>1. LayersFit'
  BY QuietView, FocusView, ListView DEF UserStep
<1>2. QED
  BY <1>1, UserTypes, UserRead, UserFocus, UserResults, UserFavorites DEF IInv

-----------------------------------------------------------------------------
(* Reading                                                                  *)

\* What reading leaves of the screen, and of what it is about.
LEMMA LoadFrame ==
  ASSUME LoadStep
  PROVE  /\ phase \in {"recents", "favorites", "systems", "games"}
         /\ UNCHANGED <<stored, history, destination, system, search, layers, button, action,
                        spent, outcome>>
<1> USE DEF dataVars, loadVars, listVars, viewVars, layerVars, restVars
<1>1. CASE LoadRecents \/ LoadFavorites \/ LoadSystems
  BY <1>1 DEF LoadRecents, LoadFavorites, LoadSystems
<1>2. CASE CheckCursor
  BY <1>2 DEF CheckCursor
<1>3. CASE ReadPage
  BY <1>3 DEF ReadPage
<1>4. CASE LoadDone
  BY <1>4 DEF LoadDone
<1>5. CASE \E g \in Games : LibraryMoves(g)
  BY <1>5 DEF LibraryMoves
<1>6. QED
  BY <1>1, <1>2, <1>3, <1>4, <1>5 DEF LoadStep, ReadStep

\* Nothing is ready before the last of its steps.
LEMMA LoadPhase ==
  ASSUME ReadStep
  PROVE  /\ phase' \in {"favorites", "systems", "games", "failed", "recents"}
         /\ focus' = focus
<1> USE DEF dataVars, loadVars, listVars, viewVars, layerVars, restVars
<1>1. CASE LoadRecents \/ LoadFavorites \/ LoadSystems
  BY <1>1 DEF LoadRecents, LoadFavorites, LoadSystems
<1>2. CASE CheckCursor
  BY <1>2 DEF CheckCursor
<1>3. CASE ReadPage
  BY <1>3 DEF ReadPage
<1>4. CASE \E g \in Games : LibraryMoves(g)
  BY <1>4 DEF LibraryMoves
<1>5. QED
  BY <1>1, <1>2, <1>3, <1>4 DEF ReadStep

\* The screen is not on before everything is read.
LEMMA LoadView ==
  ASSUME IInv, ReadStep
  PROVE  /\ ViewTypes' /\ NotShown' /\ LayersFit' /\ SearchFits' /\ SettingsListed'
         /\ FocusShown' /\ ResultsAreOfList' /\ LoadComplete'
<1>1. phase' # "ready"
  BY LoadPhase
<1>2. /\ UNCHANGED <<focus, search, action, layers, system>>
      /\ phase \in {"recents", "favorites", "systems", "games"}
  BY LoadFrame, LoadPhase DEF LoadStep
<1>3. ViewTypes' /\ NotShown'
  BY <1>2 DEF IInv, ViewTypes, NotShown
<1>4. QED
  BY <1>1, <1>3 DEF LayersFit, SearchFits, SettingsListed, FocusShown, ResultsAreOfList, LoadComplete

\* The types of what a step of the reading leaves alone.
LEMMA LoadTypes ==
  ASSUME IInv, LoadStep, DataTypes',
         phase' \in {"recents", "favorites", "systems", "games", "ready", "failed"},
         (system \in 1..Len(catalog) \/ system = 1)'
  PROVE  TypeOK'
<1>1. UNCHANGED <<destination, layers, button, spent, outcome>>
  BY LoadFrame
<1>2. \A list \in Seq(Games) : Range(list) \subseteq Games
  BY DEF Range
<1>3. QED
  BY <1>1, <1>2 DEF IInv, TypeOK, DataTypes

\* Before the games are read there are none, in whatever order.
LEMMA NothingRead ==
  ASSUME catalog = <<>>
  PROVE  CatalogInOrder /\ Loaded = 0 /\ CatalogGames = {}
<1>1. Range(catalog) = {} /\ DOMAIN catalog = {} /\ Len(catalog) = 0
  BY DEF Range
<1>2. TotalUpTo(catalog)[0] = 0
  BY <1>1, TotalSteps
<1>3. QED
  BY <1>1, <1>2, LoadedIsTotal DEF CatalogInOrder, CatalogGames

\* A catalog that stays is in the same order and as large.
LEMMA CatalogStays ==
  ASSUME IInv, catalog' = catalog
  PROVE  CatalogInOrder' /\ Loaded' = Loaded /\ CatalogGames' = CatalogGames
BY DEF IInv, CatalogInOrder, Loaded, CatalogGames

\* The lists are read first.
LEMMA LoadListsInvariant ==
  ASSUME IInv, LoadRecents \/ LoadFavorites
  PROVE  IInv'
<1> USE DEF dataVars, loadVars, listVars, viewVars, layerVars, restVars
<1>1. /\ phase \in {"recents", "favorites"} /\ phase' \in {"favorites", "systems"}
      /\ ReadStep /\ catalog' = catalog
      /\ UNCHANGED <<listed, throughout, stored, history, system, queried, left, cursor, checked, taken>>
  BY DEF LoadRecents, LoadFavorites, ReadStep
<1>2. DataTypes /\ NotBegun /\ IsInjective(stored) /\ (system \in 1..Len(catalog) \/ system = 1)
  BY DEF IInv, FavoritesKept, TypeOK
<1>3. favorites' \in Seq(Games) /\ recents' \in Seq(Games)
  BY <1>2, OrderedFacts DEF DataTypes, LoadRecents, LoadFavorites
<1>4. DataTypes'
  BY <1>1, <1>2, <1>3 DEF DataTypes
<1>5. TypeOK'
  <2>1. (system \in 1..Len(catalog) \/ system = 1)'
    BY <1>1, <1>2
  <2>2. QED
    BY <1>1, <1>4, <2>1, LoadTypes DEF LoadStep
<1>6. CatalogInOrder' /\ NotBegun' /\ PagesInOrder' /\ NoneLost'
  BY <1>1, <1>2, CatalogStays DEF NotBegun, PagesInOrder, NoneLost
<1>7. FavoritesKept'
  <2>1. CASE LoadRecents
    BY <1>1, <1>2, <2>1 DEF LoadRecents, FavoritesKept
  <2>2. CASE LoadFavorites
    <3>1. favorites' = Ordered(stored) /\ unloaded' = Range(stored) \ Range(favorites')
      BY <2>2 DEF LoadFavorites
    <3>2. /\ IsInjective(favorites') /\ Range(favorites') \subseteq Range(stored)
          /\ \A g, h : Before(favorites', g, h) => Before(stored, g, h)
      BY <1>2, <3>1, OrderedFacts DEF DataTypes
    <3>3. QED
      BY <1>1, <1>2, <3>1, <3>2 DEF FavoritesKept
  <2>3. QED
    BY <2>1, <2>2
<1>8. QED
  BY <1>1, <1>4, <1>5, <1>6, <1>7, LoadView DEF IInv

\* The systems of which the array takes the first.
FirstSystems(S) ==
  LET present == Kept(SystemOrder, S)
  IN SubSeq(present, 1, Lesser(Len(present), SystemCapacity))

\* What the query of the systems returns is in order, and a system it does not
\* return is behind a full array.
LEMMA FirstSystemsInOrder ==
  ASSUME NEW S
  PROVE  /\ FirstSystems(S) \in Seq(Systems)
         /\ \A i, j \in DOMAIN FirstSystems(S) :
              i < j => Row(FirstSystems(S)[i]) < Row(FirstSystems(S)[j])
         /\ \A s \in Systems \cap S :
              s \notin Range(FirstSystems(S)) =>
                /\ Len(FirstSystems(S)) = SystemCapacity
                /\ \A t \in Range(FirstSystems(S)) : Row(t) < Row(s)
<1> DEFINE r == Kept(SystemOrder, S)
           n == Lesser(Len(r), SystemCapacity)
           q == SubSeq(r, 1, n)
<1>1. /\ r \in Seq(Systems) /\ Range(r) = Systems \cap S
      /\ \A i, j \in DOMAIN r : i < j => Row(r[i]) < Row(r[j])
  BY SystemsInOrder
<1>2. FirstSystems(S) = q
  BY DEF FirstSystems
<1> HIDE DEF r
<1> DEFINE m == Len(r)
<1>3. m \in Nat /\ SystemCapacity \in Nat /\ DOMAIN r = 1..m
  BY <1>1, ShellAssumption
<1>4. n \in 0..m /\ n \in Nat /\ n <= m /\ (n = m \/ n = SystemCapacity)
  <2>1. m \in Nat /\ SystemCapacity \in Nat
    BY <1>3
  <2>2. QED
    BY <2>1 DEF Lesser
<1> HIDE DEF n
<1>5. /\ q \in Seq(Systems) /\ Len(q) = n /\ DOMAIN q = 1..n
      /\ \A i \in DOMAIN q : i \in DOMAIN r /\ q[i] = r[i]
  <2>1. /\ q \in Seq(Systems) /\ Len(q) = n /\ DOMAIN q = 1..n
        /\ \A i \in 1..n : q[i] = r[i]
    BY <1>1, <1>4
  <2> HIDE DEF m
  <2>2. \A i \in 1..n : i \in 1..m
    BY <1>3, <1>4
  <2>3. QED
    BY <1>3, <2>1, <2>2
<1> HIDE DEF q, m
<1>6. ASSUME NEW i \in DOMAIN q, NEW j \in DOMAIN q, i < j
      PROVE  Row(q[i]) < Row(q[j])
  <2>1. i \in DOMAIN r /\ j \in DOMAIN r /\ q[i] = r[i] /\ q[j] = r[j]
    BY <1>5, <1>6
  <2>2. QED
    BY <1>1, <1>6, <2>1
<1>7. ASSUME NEW s \in Systems \cap S, s \notin Range(q)
      PROVE  Len(q) = SystemCapacity /\ \A t \in Range(q) : Row(t) < Row(s)
  <2>1. PICK k \in DOMAIN r : r[k] = s
    BY <1>1, <1>7 DEF Range
  <2>2. k \notin DOMAIN q
    BY <1>5, <1>7, <2>1 DEF Range
  <2>3. k \in 1..m /\ n < k
    BY <1>3, <1>4, <1>5, <2>1, <2>2
  <2>4. Len(q) = SystemCapacity
    <3>1. n # m
      BY <1>3, <1>4, <2>3
    <3>2. QED
      BY <1>4, <1>5, <3>1
  <2>5. ASSUME NEW t \in Range(q)
        PROVE  Row(t) < Row(s)
    <3>1. PICK i \in DOMAIN q : q[i] = t
      BY <2>5 DEF Range
    <3>2. i \in DOMAIN r /\ r[i] = t
      BY <1>5, <3>1
    <3>3. i < k
      BY <1>3, <1>4, <1>5, <2>3, <3>1
    <3>4. QED
      BY <1>1, <2>1, <3>2, <3>3
  <2>6. QED
    BY <2>4, <2>5
<1>8. QED
  BY <1>2, <1>5, <1>6, <1>7

\* The systems are those of the games listed then, in their order.
LEMMA LoadSystemsInvariant ==
  ASSUME IInv, LoadSystems
  PROVE  IInv'
<1> USE DEF dataVars, loadVars, listVars, viewVars, layerVars, restVars
<1> DEFINE present == {SystemOf[g] : g \in listed}
<1>1. /\ phase = "systems" /\ phase' = "games"
      /\ ReadStep /\ catalog' = catalog
      /\ UNCHANGED <<listed, throughout, stored, history, system, cursor, checked, taken,
                     favorites, recents, unloaded>>
      /\ queried' = FirstSystems(present) /\ left' = queried'
  BY DEF LoadSystems, ReadStep, FirstSystems
<1>2. /\ DataTypes /\ FavoritesKept /\ (system \in 1..Len(catalog) \/ system = 1)
      /\ catalog = <<>> /\ taken = <<>> /\ cursor = None /\ checked = FALSE
  BY <1>1 DEF IInv, NotBegun, TypeOK
<1>3. /\ left' \in Seq(Systems)
      /\ \A i, j \in DOMAIN left' : i < j => Row(left'[i]) < Row(left'[j])
      /\ \A s \in Systems \cap present :
           s \notin Range(left') =>
             Len(queried') = SystemCapacity /\ \A t \in Range(queried') : Row(t) < Row(s)
  BY <1>1, FirstSystemsInOrder
<1>4. DataTypes'
  BY <1>1, <1>2, <1>3 DEF DataTypes
<1>5. TypeOK'
  <2>1. (system \in 1..Len(catalog) \/ system = 1)'
    BY <1>1, <1>2
  <2>2. QED
    BY <1>1, <1>4, <2>1, LoadTypes DEF LoadStep
<1>6. CatalogInOrder' /\ NotBegun' /\ Loaded' = 0 /\ Range(catalog') = {}
  BY <1>1, <1>2, CatalogStays, NothingRead DEF NotBegun, Range
<1>7. PagesInOrder'
  <2>1. 0 <= GameCapacity
    BY ShellAssumption
  <2>2. Range(taken') = {} /\ DOMAIN taken' = {}
    BY <1>1, <1>2 DEF Range
  <2>3. QED
    BY <1>1, <1>2, <1>3, <1>6, <2>1, <2>2 DEF PagesInOrder
<1>8. NoneLost'
  <2>1. ASSUME NEW g \in throughout'
        PROVE  Ahead(g)' \/ Unqueried(g)'
    <3>1. g \in listed /\ g \in Games /\ SystemOf[g] \in Systems
      BY <1>1, <1>2, <2>1, ShellAssumption DEF DataTypes
    <3>2. CASE SystemOf[g] \in Range(left')
      <4>1. PICK i \in DOMAIN left' : left'[i] = SystemOf[g]
        BY <3>2 DEF Range
      <4>2. After(cursor', g)
        BY <1>1, <1>2 DEF After
      <4>3. QED
        BY <4>1, <4>2 DEF Ahead
    <3>3. CASE SystemOf[g] \notin Range(left')
      BY <1>3, <3>1, <3>3 DEF Unqueried
    <3>4. QED
      BY <3>2, <3>3
  <2>2. QED
    BY <2>1 DEF NoneLost
<1>9. FavoritesKept'
  BY <1>1, <1>2 DEF FavoritesKept
<1>10. QED
  BY <1>1, <1>4, <1>5, <1>6, <1>7, <1>8, <1>9, LoadView DEF IInv

\* The cursor is looked up: of the reading, only that is noted.
LEMMA CheckCursorInvariant ==
  ASSUME IInv, CheckCursor
  PROVE  IInv'
<1> USE DEF dataVars, loadVars, listVars, viewVars, layerVars, restVars
<1>1. /\ phase = "games" /\ phase' \in {"games", "failed"} /\ checked' \in BOOLEAN
      /\ left # <<>> /\ Loaded < GameCapacity
      /\ ReadStep /\ catalog' = catalog
      /\ UNCHANGED <<listed, throughout, stored, history, system, queried, left, cursor, taken,
                     favorites, recents, unloaded>>
  BY DEF CheckCursor, ReadStep
<1>2. /\ DataTypes /\ FavoritesKept /\ (system \in 1..Len(catalog) \/ system = 1)
      /\ PagesInOrder /\ NoneLost
  BY DEF IInv, TypeOK
<1>3. DataTypes'
  BY <1>1, <1>2 DEF DataTypes
<1>4. TypeOK'
  <2>1. (system \in 1..Len(catalog) \/ system = 1)'
    BY <1>1, <1>2
  <2>2. QED
    BY <1>1, <1>3, <2>1, LoadTypes DEF LoadStep
<1>5. CatalogInOrder' /\ NotBegun' /\ Loaded' = Loaded /\ CatalogGames' = CatalogGames
  BY <1>1, CatalogStays DEF NotBegun
<1>6. PagesInOrder'
  BY <1>1, <1>2, <1>5 DEF PagesInOrder
<1>7. NoneLost'
  <2>1. \A g : Ahead(g)' <=> Ahead(g)
    BY <1>1 DEF Ahead
  <2>2. \A g : (Beyond(g)' <=> Beyond(g)) /\ (Unqueried(g)' <=> Unqueried(g))
    BY <1>1, <1>5 DEF Beyond, Unqueried
  <2>3. QED
    BY <1>1, <1>2, <1>5, <2>1, <2>2 DEF NoneLost
<1>8. FavoritesKept'
  BY <1>1, <1>2 DEF FavoritesKept
<1>9. QED
  BY <1>1, <1>3, <1>4, <1>5, <1>6, <1>7, <1>8, LoadView DEF IInv

\* A game that comes or goes is not among those that were there all the time.
LEMMA LibraryMovesInvariant ==
  ASSUME IInv, NEW g \in Games, LibraryMoves(g)
  PROVE  IInv'
<1> USE DEF dataVars, loadVars, listVars, viewVars, layerVars, restVars
<1>1. /\ phase \in {"recents", "favorites", "systems", "games"} /\ phase' = phase
      /\ ReadStep /\ catalog' = catalog
      /\ listed' \in {listed \ {g}, listed \cup {g}} /\ throughout' = throughout \cap listed'
      /\ UNCHANGED <<stored, history, system, queried, left, cursor, checked, taken,
                     favorites, recents, unloaded>>
  BY DEF LibraryMoves, ReadStep
<1>2. /\ DataTypes /\ FavoritesKept /\ (system \in 1..Len(catalog) \/ system = 1)
      /\ PagesInOrder /\ NoneLost /\ NotBegun
  BY DEF IInv, TypeOK
<1>3. DataTypes'
  BY <1>1, <1>2 DEF DataTypes
<1>4. TypeOK'
  <2>1. (system \in 1..Len(catalog) \/ system = 1)'
    BY <1>1, <1>2
  <2>2. QED
    BY <1>1, <1>3, <2>1, LoadTypes DEF LoadStep
<1>5. CatalogInOrder' /\ NotBegun' /\ Loaded' = Loaded /\ CatalogGames' = CatalogGames
  BY <1>1, <1>2, CatalogStays DEF NotBegun
<1>6. PagesInOrder'
  BY <1>1, <1>2, <1>5 DEF PagesInOrder
<1>7. NoneLost'
  <2>1. \A h : Ahead(h)' <=> Ahead(h)
    BY <1>1 DEF Ahead
  <2>2. \A h : (Beyond(h)' <=> Beyond(h)) /\ (Unqueried(h)' <=> Unqueried(h))
    BY <1>1, <1>5 DEF Beyond, Unqueried
  <2>3. QED
    BY <1>1, <1>2, <1>5, <2>1, <2>2 DEF NoneLost
<1>8. FavoritesKept'
  BY <1>1, <1>2 DEF FavoritesKept
<1>9. QED
  BY <1>1, <1>3, <1>4, <1>5, <1>6, <1>7, <1>8, LoadView DEF IInv

\* How many games were read is a number.
LEMMA LoadedTypes ==
  ASSUME catalog \in Seq(Entries)
  PROVE  Loaded \in Nat
<1>1. Len(catalog) \in Nat /\ \A i \in 1..Len(catalog) : Len(catalog[i].games) \in Nat
  <2>1. \A i \in 1..Len(catalog) : catalog[i] \in Entries
    OBVIOUS
  <2>2. \A e \in Entries : Len(e.games) \in Nat
    BY DEF Entries
  <2>3. QED
    BY <2>1, <2>2
<1>2. TotalUpTo(catalog) \in [0..Len(catalog) -> Nat]
  BY <1>1, TotalSteps
<1>3. Len(catalog) \in 0..Len(catalog)
  BY <1>1
<1>4. QED
  BY <1>2, <1>3, LoadedIsTotal

\* The first row of Settings that is selected is the second: the first is a
\* heading.
LEMMA FirstRow ==
  (CHOOSE r \in 0..Len(Settings) - 1 :
     /\ Selectable(r) /\ \A q \in 0..r - 1 : ~Selectable(q)) = 1
<1> DEFINE First(r) == Selectable(r) /\ \A q \in 0..r - 1 : ~Selectable(q)
<1>1. /\ Len(Settings) \in Nat /\ Len(Settings) >= 2
      /\ Settings[1] = "section" /\ Settings[2] # "section"
  BY ShellAssumption
<1>2. ~Selectable(0) /\ Selectable(1)
  BY <1>1 DEF Selectable
<1>3. 1 \in 0..Len(Settings) - 1
  BY <1>1
<1>4. First(1)
  <2>1. \A q \in 0..1 - 1 : q = 0
    OBVIOUS
  <2>2. QED
    BY <1>2, <2>1
<1>5. ASSUME NEW r \in 0..Len(Settings) - 1, First(r)
      PROVE  r = 1
  <2>1. r # 0 /\ r \in Nat
    BY <1>1, <1>2, <1>5
  <2>2. CASE r > 1
    <3>1. 1 \in 0..r - 1
      BY <2>1, <2>2
    <3>2. QED
      BY <1>2, <1>5, <3>1
  <2>3. QED
    BY <2>1, <2>2
<1> HIDE DEF First
<1>6. (CHOOSE r \in 0..Len(Settings) - 1 : First(r)) = 1
  BY <1>3, <1>4, <1>5
<1>7. QED
  BY <1>6 DEF First

\* Every focus is set up at the top of its list, in Settings on the first row.
LEMMA LoadDoneFits ==
  ASSUME IInv, LoadDone
  PROVE  FocusFits(focus', favorites, recents, <<>>)
<1> DEFINE Size(l) == CASE l = "favorites" -> Len(favorites) [] l = "recent" -> Len(recents)
                        [] l = "settings" -> Len(Settings) [] l = "apps" -> 1
                        [] l \in Systems -> Len(GamesOf(l))
                        [] OTHER -> 0
           first == CHOOSE r \in 0..Len(Settings) - 1 :
                      /\ Selectable(r) /\ \A q \in 0..r - 1 : ~Selectable(q)
           top == [Fresh(Size("settings")) EXCEPT !.selected = first]
<1>1. focus' = [l \in Lists |-> IF l # "settings" THEN Fresh(Size(l))
                                ELSE [Fresh(Size(l)) EXCEPT !.selected = first]]
  BY DEF LoadDone
<1>2. /\ catalog \in Seq(Entries) /\ CatalogInOrder
      /\ favorites \in Seq(Games) /\ recents \in Seq(Games)
  BY DEF IInv, DataTypes
<1>3. /\ Size("favorites") = Len(favorites) /\ Size("recent") = Len(recents)
      /\ Size("settings") = Len(Settings) /\ Size("apps") = 1
      /\ Size("search") = 0 /\ Size("actions") = 0
      /\ \A s \in Systems : Size(s) = Len(GamesOf(s))
  <2>1. {"favorites", "recent", "settings", "apps", "search", "actions"} \cap Systems = {}
    BY ShellAssumption DEF OtherLists
  <2> DEFINE games(l) == GamesOf(l)
  <2> HIDE DEF games
  <2>2. \A l : Size(l) = CASE l = "favorites" -> Len(favorites) [] l = "recent" -> Len(recents)
                        [] l = "settings" -> Len(Settings) [] l = "apps" -> 1
                        [] l \in Systems -> Len(games(l))
                        [] OTHER -> 0
    BY DEF games
  <2> HIDE DEF Size
  <2>3. /\ Size("favorites") = Len(favorites) /\ Size("recent") = Len(recents)
        /\ Size("settings") = Len(Settings) /\ Size("apps") = 1
        /\ Size("search") = 0 /\ Size("actions") = 0
    BY <2>1, <2>2
  <2>4. \A s \in Systems : Size(s) = Len(games(s))
    BY <2>1, <2>2
  <2>5. QED
    BY <2>3, <2>4 DEF games
<1> HIDE DEF Size, first
<1>4. \A l \in Lists : Size(l) \in Nat
  <2>1. \A s \in Systems : Len(GamesOf(s)) \in Nat
    BY <1>2, GamesOfTypes
  <2>2. Len(favorites) \in Nat /\ Len(recents) \in Nat /\ Len(Settings) \in Nat
    BY <1>2, ShellAssumption
  <2>3. QED
    BY <1>3, <2>1, <2>2 DEF Lists, OtherLists
<1>5. Rows \in Nat /\ Rows >= 2 /\ Len(Settings) \in Nat /\ Len(Settings) >= 2
      /\ Settings[2] # "section"
  BY ShellAssumption
<1>6. \A l \in Lists : /\ Fresh(Size(l)) \in Focus /\ Fresh(Size(l)).count = Size(l)
                       /\ Visible(Fresh(Size(l)), IF l = "actions" THEN 3 ELSE Rows)
  BY <1>4, <1>5, FreshShows
<1>7. /\ top \in Focus /\ top.count = Len(Settings) /\ Visible(top, Rows)
      /\ Selectable(top.selected)
  <2>1. first = 1
    BY FirstRow DEF first
  <2>2. top = [count |-> Len(Settings), selected |-> 1, start |-> 0]
    BY <1>3, <2>1 DEF Fresh
  <2> HIDE DEF top
  <2>3. top \in Focus /\ top.count = Len(Settings) /\ top.selected = 1 /\ top.start = 0
    BY <1>5, <2>2 DEF Focus
  <2>4. Greater(top.count - Rows, 0) \in Nat
    BY <1>5, <2>3 DEF Greater
  <2>5. Visible(top, Rows)
    BY <1>5, <2>3, <2>4 DEF Visible
  <2>6. Selectable(top.selected)
    BY <1>5, <2>3 DEF Selectable
  <2>7. QED
    BY <2>3, <2>5, <2>6
<1>8. /\ \A l \in Lists \ {"settings"} : focus'[l] = Fresh(Size(l))
      /\ "settings" \in Lists /\ focus'["settings"] = top
  BY <1>1 DEF Lists, OtherLists
<1> HIDE DEF top
<1>9. /\ focus' \in [Lists -> Focus]
      /\ \A l \in Lists : Visible(focus'[l], IF l = "actions" THEN 3 ELSE Rows)
  <2>1. \A l \in Lists : /\ focus'[l] \in Focus
                         /\ Visible(focus'[l], IF l = "actions" THEN 3 ELSE Rows)
    BY <1>6, <1>7, <1>8
  <2>2. focus' = [l \in Lists |-> focus'[l]]
    BY <1>1
  <2>3. QED
    BY <2>1, <2>2
<1>10. \A e \in Range(catalog) : focus'[e.system].count = Len(e.games)
  <2>1. ASSUME NEW e \in Range(catalog)
        PROVE  focus'[e.system].count = Len(e.games)
    <3>1. e.system \in Systems /\ GamesOf(e.system) = e.games
      BY <1>2, CatalogEntries, GamesOfEntry
    <3>2. e.system \in Lists \ {"settings"}
      BY <3>1, NamesDiffer DEF OtherLists
    <3>3. QED
      BY <1>3, <1>6, <1>8, <3>1, <3>2
  <2>2. QED
    BY <2>1
<1>11. /\ focus'["favorites"].count = Len(favorites) /\ focus'["recent"].count = Len(recents)
       /\ focus'["search"].count = Len(<<>>)
  <2>1. {"favorites", "recent", "search"} \subseteq Lists \ {"settings"} /\ Len(<<>>) = 0
    BY DEF Lists, OtherLists
  <2>2. QED
    BY <1>3, <1>6, <1>8, <2>1
<1>12. QED
  BY <1>7, <1>8, <1>9, <1>10, <1>11 DEF FocusFits

\* Reading ends with nothing lost but what there is no room for.
LEMMA LoadDoneComplete ==
  ASSUME IInv, LoadDone
  PROVE  LoadComplete'
<1>1. /\ phase = "games" /\ (left = <<>> \/ Loaded >= GameCapacity)
      /\ catalog' = catalog /\ throughout' = throughout /\ queried' = queried
  BY DEF LoadDone, listVars
<1>2. CatalogInOrder' /\ Loaded' = Loaded /\ CatalogGames' = CatalogGames
  BY <1>1, CatalogStays
<1>3. DataTypes /\ PagesInOrder /\ NoneLost /\ CatalogInOrder
  BY DEF IInv
<1>4. Loaded \in Nat /\ GameCapacity \in Nat /\ Len(taken) \in Nat
  BY <1>3, LoadedTypes, ShellAssumption DEF DataTypes
<1>5. taken = <<>>
  BY <1>1, <1>3, <1>4 DEF PagesInOrder
<1>6. ASSUME NEW g \in throughout \ CatalogGames, SystemOf[g] \in Playable
      PROVE  /\ Loaded = GameCapacity \/ Unqueried(g)
             /\ \A h \in CatalogGames : Precedes(h, g)
  <2>1. Ahead(g) \/ Beyond(g) \/ Unqueried(g)
    <3>1. g \notin Range(taken)
      BY <1>5 DEF Range
    <3>2. QED
      BY <1>1, <1>3, <1>6, <3>1 DEF NoneLost
  <2>2. CASE Ahead(g)
    <3>1. PICK i \in DOMAIN left : left[i] = SystemOf[g]
      BY <2>2 DEF Ahead
    <3>2. left # <<>>
      BY <3>1
    <3>3. Loaded = GameCapacity
      BY <1>1, <1>3, <1>4, <3>2 DEF PagesInOrder
    <3>4. ASSUME NEW h \in CatalogGames
          PROVE  Precedes(h, g)
      <4>1. PICK e \in Range(catalog) : h \in Range(e.games)
        BY DEF CatalogGames
      <4>2. SystemOf[h] = e.system
        BY <1>3, <4>1 DEF CatalogInOrder
      <4>3. Row(e.system) < Row(left[i])
        BY <1>1, <1>3, <3>1 DEF PagesInOrder, Range
      <4>4. QED
        BY <3>1, <4>2, <4>3 DEF Precedes
    <3>5. QED
      BY <3>3, <3>4
  <2>3. CASE Unqueried(g)
    <3>1. ASSUME NEW h \in CatalogGames
          PROVE  Precedes(h, g)
      <4>1. PICK e \in Range(catalog) : h \in Range(e.games)
        BY DEF CatalogGames
      <4>2. SystemOf[h] = e.system
        BY <1>3, <4>1 DEF CatalogInOrder
      <4>3. e.system \in Range(queried)
        BY <1>1, <1>3 DEF PagesInOrder
      <4>4. QED
        BY <2>3, <4>2, <4>3 DEF Precedes, Unqueried
    <3>2. QED
      BY <2>3, <3>1
  <2>4. QED
    BY <2>1, <2>2, <2>3 DEF Beyond
<1>7. \A g : Unqueried(g)' <=> Unqueried(g)
  BY <1>1 DEF Unqueried
<1>8. QED
  BY <1>1, <1>2, <1>6, <1>7 DEF LoadComplete, CatalogInOrder

\* The end of the reading keeps the invariant.
LEMMA LoadDoneInvariant ==
  ASSUME IInv, LoadDone
  PROVE  IInv'
<1> USE DEF dataVars, loadVars, listVars, viewVars, layerVars, restVars
<1>1. /\ phase = "games" /\ phase' \in {"ready", "failed"} /\ LoadStep
      /\ UNCHANGED <<listed, throughout, stored, history, system, left, cursor, checked, taken,
                     catalog, favorites, recents, unloaded, search, layers, action>>
      /\ continue' = (~safe /\ recents # <<>>)
  BY DEF LoadDone, LoadStep
<1>2. /\ DataTypes /\ ViewTypes /\ FavoritesKept /\ (system \in 1..Len(catalog) \/ system = 1)
      /\ search = NoSearch /\ layers \subseteq {"firstRun"}
  BY <1>1 DEF IInv, TypeOK, NotShown
<1>3. DataTypes'
  BY <1>1, <1>2 DEF DataTypes
<1>4. TypeOK'
  BY <1>1, <1>2, <1>3, LoadTypes
<1>5. CatalogInOrder' /\ NotBegun' /\ NotShown' /\ PagesInOrder' /\ NoneLost'
  BY <1>1, CatalogStays DEF NotBegun, NotShown, PagesInOrder, NoneLost
<1>6. FavoritesKept'
  BY <1>1, <1>2 DEF FavoritesKept
<1>7. LayersFit' /\ SearchFits' /\ ResultsAreOfList'
  BY <1>1, <1>2 DEF LayersFit, SearchFits, ResultsAreOfList, NoSearch
<1>8. FocusFits(focus', favorites', recents', search'.results)
  BY <1>1, <1>2, LoadDoneFits DEF NoSearch
<1>9. FocusShown' /\ SettingsListed' /\ focus' \in [Lists -> Focus]
  BY <1>1, <1>8, FocusFitsNext
<1>10. ViewTypes'
  BY <1>1, <1>2, <1>9 DEF ViewTypes
<1>11. QED
  BY <1>3, <1>4, <1>5, <1>6, <1>7, <1>9, <1>10, LoadDoneComplete DEF IInv

-----------------------------------------------------------------------------
(* A page                                                                   *)

\* What ReadPage names: the room that is left, the longest the page may be, what
\* the query finds, whether something follows, the page, what is then taken.
Room  == GameCapacity - Loaded - Len(taken)
Limit == Lesser(PageSize, Room)
Found == Kept(GameOrder, {g \in listed : SystemOf[g] = Head(left) /\ After(cursor, g)})
More  == Len(Found) > Limit
Page  == IF More THEN SubSeq(Found, 1, Limit) ELSE Found
All   == taken \o Page

\* What reading a page does, in the terms above.
LEMMA ReadPageMeans ==
  ASSUME ReadPage
  PROVE  /\ phase = "games" /\ phase' = "games" /\ checked /\ checked' = FALSE /\ ReadStep
         /\ UNCHANGED <<listed, throughout, stored, history, system, favorites, recents, unloaded,
                        queried>>
         /\ More /\ Limit < Room =>
              cursor' = Found[Limit] /\ taken' = All /\ UNCHANGED <<left, catalog>>
         /\ ~(More /\ Limit < Room) =>
              /\ cursor' = None /\ taken' = <<>> /\ left' = Tail(left)
              /\ catalog' = IF All # <<>> /\ Head(left) \in Playable
                              THEN Append(catalog, [system |-> Head(left), games |-> All])
                              ELSE catalog
BY DEF ReadPage, ReadStep, NextCursor, Room, Limit, Found, More, Page, All,
       dataVars, viewVars

\* Two lists that follow each other.
LEMMA ConcatFacts ==
  ASSUME NEW X, NEW s \in Seq(X), NEW t \in Seq(X)
  PROVE  /\ s \o t \in Seq(X) /\ Len(s \o t) = Len(s) + Len(t)
         /\ Range(s \o t) = Range(s) \cup Range(t)
         /\ \A i \in DOMAIN (s \o t) :
              \/ i \in DOMAIN s /\ (s \o t)[i] = s[i]
              \/ i - Len(s) \in DOMAIN t /\ (s \o t)[i] = t[i - Len(s)]
<1> DEFINE r == s \o t
           m == Len(s)
           n == Len(t)
<1>1. /\ m \in Nat /\ n \in Nat /\ DOMAIN s = 1..m /\ DOMAIN t = 1..n
      /\ r \in Seq(X) /\ Len(r) = m + n /\ DOMAIN r = 1..m + n
  OBVIOUS
<1>2. /\ \A i \in 1..m : r[i] = s[i]
      /\ \A i \in 1..m + n : i > m => r[i] = t[i - m]
  OBVIOUS
<1> HIDE DEF r, m, n
<1>3. \A i \in 1..m + n : \/ i \in 1..m /\ r[i] = s[i]
                          \/ i - m \in 1..n /\ r[i] = t[i - m]
  BY <1>1, <1>2
<1>4. Range(r) \subseteq Range(s) \cup Range(t)
  BY <1>1, <1>3 DEF Range
<1>5. Range(s) \subseteq Range(r)
  <2>1. \A i \in 1..m : i \in 1..m + n
    BY <1>1
  <2>2. QED
    BY <1>1, <1>2, <2>1 DEF Range
<1>6. Range(t) \subseteq Range(r)
  <2>1. \A i \in 1..n : i + m \in 1..m + n /\ r[i + m] = t[i]
    BY <1>1, <1>2
  <2>2. QED
    BY <1>1, <2>1 DEF Range
<1>7. QED
  BY <1>1, <1>3, <1>4, <1>5, <1>6 DEF r, m, n

\* There is room for a page, and a page is found.
LEMMA PageFound ==
  ASSUME IInv, phase = "games", checked
  PROVE  /\ left \in Seq(Systems) /\ left # <<>> /\ Head(left) = left[1] /\ left[1] \in Systems
         /\ Loaded \in Nat /\ Len(taken) \in Nat /\ Loaded + Len(taken) < GameCapacity
         /\ Room \in Nat \ {0} /\ Limit \in Nat \ {0} /\ Limit <= Room
         /\ Found \in Seq(Games)
         /\ Range(Found) = {g \in listed : SystemOf[g] = left[1] /\ After(cursor, g)}
         /\ \A i, j \in DOMAIN Found : i < j => Place(Found[i]) < Place(Found[j])
<1>1. DataTypes /\ PagesInOrder
  BY DEF IInv
<1>2. /\ left \in Seq(Systems) /\ left # <<>> /\ taken \in Seq(Games) /\ listed \subseteq Games
      /\ Loaded < GameCapacity
      /\ taken # <<>> => Loaded + Len(taken) < GameCapacity
  BY <1>1 DEF DataTypes, PagesInOrder
<1>3. Head(left) = left[1] /\ left[1] \in Systems
  BY <1>2
<1>4. Loaded \in Nat /\ GameCapacity \in Nat /\ Len(taken) \in Nat /\ PageSize \in Nat \ {0}
  BY <1>1, <1>2, LoadedTypes, ShellAssumption DEF DataTypes
<1>5. Loaded + Len(taken) < GameCapacity
  <2>1. taken = <<>> => Len(taken) = 0
    OBVIOUS
  <2>2. QED
    BY <1>2, <1>4, <2>1
<1>6. Room \in Nat \ {0}
  BY <1>4, <1>5 DEF Room
<1>7. Limit \in Nat \ {0} /\ Limit <= Room
  BY <1>4, <1>6 DEF Limit, Lesser
<1> DEFINE S == {g \in listed : SystemOf[g] = Head(left) /\ After(cursor, g)}
<1>8. /\ Found \in Seq(Games) /\ Range(Found) = Games \cap S
      /\ \A i, j \in DOMAIN Found : i < j => Place(Found[i]) < Place(Found[j])
  <2> HIDE DEF S
  <2>1. /\ Kept(GameOrder, S) \in Seq(Games) /\ Range(Kept(GameOrder, S)) = Games \cap S
        /\ \A i, j \in DOMAIN Kept(GameOrder, S) :
             i < j => Place(Kept(GameOrder, S)[i]) < Place(Kept(GameOrder, S)[j])
    BY GamesInOrder
  <2>2. QED
    BY <2>1 DEF Found, S
<1>9. Range(Found) = S
  BY <1>2, <1>8
<1>10. QED
  BY <1>2, <1>3, <1>4, <1>5, <1>6, <1>7, <1>8, <1>9

\* The page is the first of what was found.
LEMMA PageFacts ==
  ASSUME IInv, phase = "games", checked
  PROVE  /\ Page \in Seq(Games) /\ Len(Page) <= Limit
         /\ More => Len(Page) = Limit
         /\ \A i \in DOMAIN Page : i \in DOMAIN Found /\ Page[i] = Found[i]
         /\ ~More => Page = Found
         /\ \A k \in DOMAIN Found : k \in DOMAIN Page \/ (More /\ k > Limit)
<1>1. Found \in Seq(Games) /\ Limit \in Nat \ {0}
  BY PageFound
<1> DEFINE n == Len(Found)
<1>2. n \in Nat /\ DOMAIN Found = 1..n
  BY <1>1
<1>3. CASE More
  <2>1. Limit \in 0..Len(Found)
    BY <1>1, <1>2, <1>3 DEF More
  <2>2. /\ SubSeq(Found, 1, Limit) \in Seq(Games) /\ Len(SubSeq(Found, 1, Limit)) = Limit
        /\ \A i \in 1..Limit : SubSeq(Found, 1, Limit)[i] = Found[i]
    BY <1>1, <2>1, FirstFacts
  <2>3. Page = SubSeq(Found, 1, Limit)
    BY <1>3 DEF Page
  <2>4. /\ Page \in Seq(Games) /\ Len(Page) = Limit /\ DOMAIN Page = 1..Limit
        /\ \A i \in 1..Limit : Page[i] = Found[i]
    BY <2>2, <2>3
  <2> HIDE DEF n
  <2>5. /\ \A i \in 1..Limit : i \in 1..n
        /\ \A k \in 1..n : k \in 1..Limit \/ k > Limit
    BY <1>1, <1>2, <2>1 DEF n
  <2>6. QED
    BY <1>1, <1>2, <1>3, <2>4, <2>5
<1>4. CASE ~More
  <2>1. Page = Found
    BY <1>4 DEF Page
  <2>2. n <= Limit
    BY <1>1, <1>2, <1>4 DEF More
  <2>3. QED
    BY <1>1, <1>2, <1>4, <2>1, <2>2
<1>5. QED
  BY <1>3, <1>4

\* What is then taken of the system: in order, up to the end of the page.
LEMMA AllFacts ==
  ASSUME IInv, phase = "games", checked
  PROVE  /\ All \in Seq(Games) /\ Len(All) = Len(taken) + Len(Page)
         /\ Range(All) = Range(taken) \cup Range(Page)
         /\ \A g \in Range(All) : SystemOf[g] = left[1]
         /\ \A i, j \in DOMAIN All : i < j => Place(All[i]) < Place(All[j])
         /\ \A h \in Range(taken), g \in Games : After(cursor, g) => Place(h) < Place(g)
<1>1. DataTypes /\ PagesInOrder
  BY DEF IInv
<1>2. /\ taken \in Seq(Games) /\ cursor \in Games \cup {None} /\ listed \subseteq Games
      /\ cursor = None <=> taken = <<>>
      /\ \A g \in Range(taken) : SystemOf[g] = left[1] /\ Place(g) <= Place(cursor)
      /\ \A i, j \in DOMAIN taken : i < j => Place(taken[i]) < Place(taken[j])
  BY <1>1 DEF DataTypes, PagesInOrder
<1>3. /\ Page \in Seq(Games)
      /\ \A i \in DOMAIN Page : i \in DOMAIN Found /\ Page[i] = Found[i]
  BY PageFacts
<1>4. /\ Range(Found) = {g \in listed : SystemOf[g] = left[1] /\ After(cursor, g)}
      /\ \A i, j \in DOMAIN Found : i < j => Place(Found[i]) < Place(Found[j])
  BY PageFound
<1>5. /\ All \in Seq(Games) /\ Len(All) = Len(taken) + Len(Page)
      /\ Range(All) = Range(taken) \cup Range(Page)
      /\ \A i \in DOMAIN All :
           \/ i \in DOMAIN taken /\ All[i] = taken[i]
           \/ i - Len(taken) \in DOMAIN Page /\ All[i] = Page[i - Len(taken)]
  BY <1>2, <1>3, ConcatFacts DEF All
<1>6. \A i \in DOMAIN Page : Page[i] \in Range(Found)
  BY <1>3 DEF Range
<1>7. Range(Page) \subseteq Range(Found)
  BY <1>6 DEF Range
<1>8. \A g \in Range(All) : SystemOf[g] = left[1]
  BY <1>2, <1>4, <1>5, <1>7
<1>9. ASSUME NEW h \in Range(taken), NEW g \in Games, After(cursor, g)
      PROVE  Place(h) < Place(g)
  <2>1. taken # <<>> /\ h \in Games
    BY <1>2 DEF Range
  <2>2. cursor \in Games /\ cursor # None
    BY <1>2, <2>1
  <2>3. Place(cursor) < Place(g) /\ Place(h) <= Place(cursor)
    BY <1>2, <1>9, <2>2 DEF After
  <2>4. Place(h) \in Int /\ Place(cursor) \in Int /\ Place(g) \in Int
    BY <2>1, <2>2, PlacesAreInt
  <2>5. QED
    BY <2>3, <2>4
<1>10. ASSUME NEW i \in DOMAIN All, NEW j \in DOMAIN All, i < j
       PROVE  Place(All[i]) < Place(All[j])
  <2>1. /\ Len(taken) \in Nat /\ DOMAIN taken = 1..Len(taken)
        /\ Len(Page) \in Nat /\ DOMAIN Page = 1..Len(Page)
        /\ i \in Int /\ j \in Int
    BY <1>2, <1>3, <1>5
  <2>2. CASE i \in DOMAIN taken /\ All[i] = taken[i] /\ j \in DOMAIN taken /\ All[j] = taken[j]
    BY <1>2, <1>10, <2>2
  <2>3. CASE /\ i \in DOMAIN taken /\ All[i] = taken[i]
             /\ j - Len(taken) \in DOMAIN Page /\ All[j] = Page[j - Len(taken)]
    <3>1. All[i] \in Range(taken)
      BY <2>3 DEF Range
    <3>2. All[j] \in Range(Found)
      BY <1>6, <2>3
    <3>3. All[j] \in Games /\ After(cursor, All[j])
      BY <1>2, <1>4, <3>2
    <3>4. QED
      BY <1>9, <3>1, <3>3
  <2>4. CASE /\ i - Len(taken) \in DOMAIN Page /\ All[i] = Page[i - Len(taken)]
             /\ j - Len(taken) \in DOMAIN Page /\ All[j] = Page[j - Len(taken)]
    <3>1. i - Len(taken) < j - Len(taken)
      BY <1>10, <2>1
    <3>2. /\ All[i] = Found[i - Len(taken)] /\ i - Len(taken) \in DOMAIN Found
          /\ All[j] = Found[j - Len(taken)] /\ j - Len(taken) \in DOMAIN Found
      BY <1>3, <2>4
    <3>3. QED
      BY <1>4, <3>1, <3>2
  <2>5. CASE /\ i - Len(taken) \in DOMAIN Page /\ j \in DOMAIN taken
    BY <1>10, <2>1, <2>5
  <2>6. QED
    BY <1>5, <2>2, <2>3, <2>4, <2>5
<1>11. QED
  BY <1>5, <1>8, <1>9, <1>10

\* A game of the system, behind the cursor, is on the page or behind its end.
LEMMA PageCovers ==
  ASSUME IInv, phase = "games", checked,
         NEW g \in listed, SystemOf[g] = left[1], After(cursor, g)
  PROVE  \/ g \in Range(Page)
         \/ /\ More /\ Place(Found[Limit]) < Place(g)
            /\ \A h \in Range(All) : Place(h) < Place(g)
<1>1. listed \subseteq Games
  BY DEF IInv, DataTypes
<1>2. /\ Found \in Seq(Games) /\ g \in Range(Found) /\ Limit \in Nat \ {0}
      /\ \A i, j \in DOMAIN Found : i < j => Place(Found[i]) < Place(Found[j])
  BY PageFound
<1>3. PICK k \in DOMAIN Found : Found[k] = g
  BY <1>2 DEF Range
<1>4. /\ Page \in Seq(Games) /\ Len(Page) <= Limit /\ (More => Len(Page) = Limit)
      /\ \A i \in DOMAIN Page : i \in DOMAIN Found /\ Page[i] = Found[i]
      /\ k \in DOMAIN Page \/ (More /\ k > Limit)
  BY PageFacts
<1>5. CASE k \in DOMAIN Page
  BY <1>3, <1>4, <1>5 DEF Range
<1>6. CASE More /\ k > Limit
  <2>1. Limit \in DOMAIN Found
    BY <1>2, <1>3, <1>6
  <2>2. Place(Found[Limit]) < Place(g)
    BY <1>2, <1>3, <1>6, <2>1
  <2>3. ASSUME NEW h \in Range(All)
        PROVE  Place(h) < Place(g)
    <3>1. CASE h \in Range(taken)
      BY <1>1, <3>1, AllFacts
    <3>2. CASE h \in Range(Page)
      <4>1. PICK i \in DOMAIN Page : Page[i] = h
        BY <3>2 DEF Range
      <4>2. i < k /\ i \in DOMAIN Found /\ Found[i] = h
        <5>1. i \in 1..Len(Page) /\ Len(Page) \in Nat /\ k \in Int
          BY <1>2, <1>4
        <5>2. QED
          BY <1>2, <1>4, <1>6, <4>1, <5>1
      <4>3. QED
        BY <1>2, <1>3, <4>2
    <3>3. QED
      BY <2>3, <3>1, <3>2, AllFacts
  <2>4. QED
    BY <1>6, <2>2, <2>3
<1>7. QED
  BY <1>4, <1>5, <1>6

\* A page that others follow: the system goes on after its last game.
LEMMA PageTurned ==
  ASSUME IInv, ReadPage, More, Limit < Room
  PROVE  DataTypes' /\ CatalogInOrder' /\ PagesInOrder' /\ NoneLost'
         /\ (system \in 1..Len(catalog) \/ system = 1)'
<1>1. /\ phase = "games" /\ phase' = "games" /\ checked /\ checked' = FALSE
      /\ UNCHANGED <<listed, throughout, stored, history, system, favorites, recents,
                     queried, left, catalog>>
      /\ cursor' = Found[Limit] /\ taken' = All
  BY ReadPageMeans
<1>2. /\ DataTypes /\ PagesInOrder /\ NoneLost /\ (system \in 1..Len(catalog) \/ system = 1)
  BY DEF IInv, TypeOK
<1>3. /\ left # <<>> /\ Loaded \in Nat /\ Len(taken) \in Nat
      /\ Room \in Nat /\ Limit \in Nat \ {0} /\ Found \in Seq(Games)
      /\ \A i, j \in DOMAIN Found : i < j => Place(Found[i]) < Place(Found[j])
      /\ Loaded < GameCapacity /\ GameCapacity \in Nat
  BY <1>1, PageFound, ShellAssumption
<1>4. /\ Page \in Seq(Games) /\ Len(Page) = Limit
      /\ \A i \in DOMAIN Page : i \in DOMAIN Found /\ Page[i] = Found[i]
  BY <1>1, PageFacts
<1>5. /\ All \in Seq(Games) /\ Len(All) = Len(taken) + Len(Page)
      /\ Range(All) = Range(taken) \cup Range(Page)
      /\ \A g \in Range(All) : SystemOf[g] = left[1]
      /\ \A i, j \in DOMAIN All : i < j => Place(All[i]) < Place(All[j])
      /\ \A h \in Range(taken), g \in Games : After(cursor, g) => Place(h) < Place(g)
  BY <1>1, AllFacts
<1>6. Limit \in DOMAIN Page /\ Limit \in DOMAIN Found
  BY <1>3, <1>4
<1> DEFINE last == Found[Limit]
<1>7. last \in Games /\ last # None /\ last \in Range(Page) /\ After(cursor, last)
  <2>1. last \in Games /\ last \in Range(Page)
    BY <1>3, <1>4, <1>6 DEF Range
  <2>2. last \in Range(Found)
    BY <1>6 DEF Range
  <2>3. After(cursor, last)
    BY <1>1, <2>2, PageFound
  <2>4. QED
    BY <2>1, <2>3, ShellAssumption
<1>8. ASSUME NEW g \in Range(All)
      PROVE  Place(g) <= Place(last)
  <2>1. g \in Games /\ Place(g) \in Int /\ Place(last) \in Int
    BY <1>5, <1>7, PlacesAreInt DEF Range
  <2>2. CASE g \in Range(taken)
    BY <1>5, <1>7, <2>1, <2>2
  <2>3. CASE g \in Range(Page)
    <3>1. PICK i \in DOMAIN Page : Page[i] = g
      BY <2>3 DEF Range
    <3>2. i \in DOMAIN Found /\ Found[i] = g /\ i \in Nat /\ i <= Limit
      BY <1>4, <3>1
    <3>3. CASE i = Limit
      BY <2>1, <3>2, <3>3
    <3>4. CASE i # Limit
      <4>1. i < Limit
        BY <1>3, <3>2, <3>4
      <4>2. Place(Found[i]) < Place(Found[Limit])
        BY <1>3, <1>6, <3>2, <4>1
      <4>3. QED
        BY <2>1, <3>2, <4>2
    <3>5. QED
      BY <3>3, <3>4
  <2>4. QED
    BY <1>5, <2>2, <2>3
<1> HIDE DEF last
<1>9. cursor' = last
  BY <1>1 DEF last
<1>10. CatalogInOrder' /\ Loaded' = Loaded /\ CatalogGames' = CatalogGames
  BY <1>1, CatalogStays
<1>11. DataTypes'
  BY <1>1, <1>2, <1>5, <1>7, <1>9 DEF DataTypes
<1>12. PagesInOrder'
  <2>1. Loaded + Len(All) < GameCapacity
    <3>1. Len(All) = Len(taken) + Limit /\ Limit < Room
      BY <1>4, <1>5
    <3>2. QED
      BY <1>3, <3>1 DEF Room
  <2>2. All # <<>>
    <3>1. Len(All) # 0
      BY <1>3, <1>4, <1>5
    <3>2. QED
      BY <3>1
  <2>3. QED
    BY <1>1, <1>2, <1>3, <1>5, <1>7, <1>8, <1>9, <1>10, <2>1, <2>2 DEF PagesInOrder
<1>13. NoneLost'
  <2>1. ASSUME NEW g \in throughout, SystemOf[g] \in Playable
        PROVE  (g \in CatalogGames \/ g \in Range(taken) \/ Ahead(g) \/ Unqueried(g))'
    <3>1. g \in CatalogGames \/ g \in Range(taken) \/ Ahead(g) \/ Unqueried(g)
      <4>1. ~Beyond(g)
        BY <1>3 DEF Beyond
      <4>2. QED
        BY <1>1, <1>2, <2>1, <4>1 DEF NoneLost
    <3>2. CASE g \in CatalogGames \/ g \in Range(taken)
      BY <1>1, <1>5, <1>10, <3>2
    <3>3. CASE Ahead(g)
      <4>1. PICK i \in DOMAIN left : left[i] = SystemOf[g] /\ (i = 1 => After(cursor, g))
        BY <3>3 DEF Ahead
      <4>2. CASE i # 1
        BY <1>1, <4>1, <4>2 DEF Ahead
      <4>3. CASE i = 1
        <5>1. g \in listed /\ SystemOf[g] = left[1] /\ After(cursor, g)
          BY <1>2, <2>1, <4>1, <4>3 DEF DataTypes
        <5>2. CASE g \in Range(Page)
          BY <1>1, <1>5, <5>2
        <5>3. CASE Place(Found[Limit]) < Place(g)
          <6>1. After(cursor', g)
            BY <1>9, <5>3 DEF After, last
          <6>2. QED
            BY <1>1, <4>1, <6>1 DEF Ahead
        <5>4. QED
          BY <1>1, <5>1, <5>2, <5>3, PageCovers
      <4>4. QED
        BY <4>2, <4>3
    <3>4. CASE Unqueried(g)
      BY <1>1, <3>4 DEF Unqueried
    <3>5. QED
      BY <3>1, <3>2, <3>3, <3>4
  <2>2. QED
    BY <1>1, <2>1 DEF NoneLost
<1>14. QED
  BY <1>1, <1>2, <1>10, <1>11, <1>12, <1>13

\* The rest of a list of systems.
LEMMA TailFacts ==
  ASSUME NEW X, NEW s \in Seq(X), s # <<>>
  PROVE  /\ Tail(s) \in Seq(X)
         /\ \A i \in DOMAIN Tail(s) : i + 1 \in DOMAIN s /\ i + 1 # 1 /\ Tail(s)[i] = s[i + 1]
         /\ \A k \in DOMAIN s : k # 1 => k - 1 \in DOMAIN Tail(s) /\ Tail(s)[k - 1] = s[k]
<1>1. Len(s) \in Nat \ {0} /\ DOMAIN s = 1..Len(s)
  OBVIOUS
<1>2. /\ Tail(s) \in Seq(X) /\ DOMAIN Tail(s) = 1..Len(s) - 1
      /\ \A i \in 1..Len(s) - 1 : Tail(s)[i] = s[i + 1]
  OBVIOUS
<1> DEFINE t == Tail(s)
           n == Len(s)
<1> HIDE DEF t, n
<1>3. \A i \in 1..n - 1 : i + 1 \in 1..n /\ i + 1 # 1
  BY <1>1 DEF n
<1>4. \A k \in 1..n : k # 1 => k - 1 \in 1..n - 1 /\ (k - 1) + 1 = k
  BY <1>1 DEF n
<1>5. QED
  BY <1>1, <1>2, <1>3, <1>4 DEF t, n

\* What the catalog is once a system and its games are added to it.
LEMMA CatalogGrows ==
  ASSUME IInv, NEW e \in Entries, catalog' = Append(catalog, e)
  PROVE  /\ catalog' \in Seq(Entries)
         /\ Len(catalog') = Len(catalog) + 1
         /\ Range(catalog') = Range(catalog) \cup {e}
         /\ Loaded' = Loaded + Len(e.games)
         /\ CatalogGames' = CatalogGames \cup Range(e.games)
         /\ \A i, j \in DOMAIN catalog' : i < j =>
              \/ i \in DOMAIN catalog /\ j \in DOMAIN catalog
                   /\ catalog'[i] = catalog[i] /\ catalog'[j] = catalog[j]
              \/ i \in DOMAIN catalog /\ catalog'[i] = catalog[i]
                   /\ catalog'[j] = e
<1>1. e.games \in Seq(Games) /\ catalog \in Seq(Entries)
  BY DEF Entries, IInv, DataTypes
<1>2. catalog' = Append(catalog, e)
  OBVIOUS
<1>3. /\ catalog' \in Seq(Entries) /\ Len(catalog') = Len(catalog) + 1
      /\ Len(catalog) \in Nat /\ DOMAIN catalog = 1..Len(catalog)
      /\ DOMAIN catalog' = 1..Len(catalog) + 1
      /\ \A i \in 1..Len(catalog) : catalog'[i] = catalog[i]
      /\ catalog'[Len(catalog) + 1] = e
  BY <1>1, <1>2
<1>4. Range(catalog') = Range(catalog) \cup {e}
  BY <1>1, <1>2, AppendFacts
<1>5. Loaded' = Loaded + Len(e.games)
  <2>1. \A x \in Entries : Len(x.games) \in Nat
    BY DEF Entries
  <2>2. TotalUpTo(Append(catalog, e))[Len(Append(catalog, e))]
          = TotalUpTo(catalog)[Len(catalog)] + Len(e.games)
    BY <1>1, <2>1, TotalAppend
  <2>3. QED
    BY <1>1, <1>2, <2>2, LoadedIsTotal, LoadedNext
<1>6. CatalogGames' = CatalogGames \cup Range(e.games)
  BY <1>1, <1>4 DEF CatalogGames
<1>7. ASSUME NEW i \in DOMAIN catalog', NEW j \in DOMAIN catalog', i < j
      PROVE  \/ i \in DOMAIN catalog /\ j \in DOMAIN catalog
                   /\ catalog'[i] = catalog[i] /\ catalog'[j] = catalog[j]
             \/ i \in DOMAIN catalog /\ catalog'[i] = catalog[i] /\ catalog'[j] = e
  <2>1. i \in 1..Len(catalog) /\ (j \in 1..Len(catalog) \/ j = Len(catalog) + 1)
    BY <1>3, <1>7
  <2>2. QED
    BY <1>3, <2>1
<1>8. QED
  BY <1>3, <1>4, <1>5, <1>6, <1>7

\* The last page of a system, or of what fits: the system is done.
LEMMA PageEnds ==
  ASSUME IInv, ReadPage, ~(More /\ Limit < Room)
  PROVE  DataTypes' /\ CatalogInOrder' /\ PagesInOrder' /\ NoneLost'
         /\ (system \in 1..Len(catalog) \/ system = 1)'
<1> DEFINE s == left[1]
           entry == [system |-> s, games |-> All]
           Added == All # <<>> /\ s \in Playable
<1>1. /\ left \in Seq(Systems) /\ left # <<>> /\ s \in Systems
      /\ Loaded \in Nat /\ Len(taken) \in Nat /\ Loaded + Len(taken) < GameCapacity
      /\ Room \in Nat \ {0} /\ Limit \in Nat \ {0} /\ Limit <= Room
      /\ Head(left) = s /\ GameCapacity \in Nat
  BY PageFound, ReadPageMeans, ShellAssumption
<1>2. /\ phase = "games" /\ phase' = "games" /\ checked /\ checked' = FALSE
      /\ UNCHANGED <<listed, throughout, stored, history, system, favorites, recents, queried>>
      /\ cursor' = None /\ taken' = <<>> /\ left' = Tail(left)
      /\ catalog' = IF Added THEN Append(catalog, entry) ELSE catalog
  BY <1>1, ReadPageMeans
<1>3. /\ DataTypes /\ CatalogInOrder /\ PagesInOrder /\ NoneLost
      /\ system \in 1..Len(catalog) \/ system = 1
  BY DEF IInv, TypeOK
<1>4. /\ Page \in Seq(Games) /\ Len(Page) <= Limit /\ (More => Len(Page) = Limit)
  BY <1>2, PageFacts
<1>5. /\ All \in Seq(Games) /\ Len(All) = Len(taken) + Len(Page)
      /\ Range(All) = Range(taken) \cup Range(Page)
      /\ \A g \in Range(All) : SystemOf[g] = s
      /\ \A i, j \in DOMAIN All : i < j => Place(All[i]) < Place(All[j])
  BY <1>2, AllFacts
<1>6. /\ Tail(left) \in Seq(Systems)
      /\ \A i \in DOMAIN Tail(left) :
           i + 1 \in DOMAIN left /\ i + 1 # 1 /\ Tail(left)[i] = left[i + 1]
      /\ \A k \in DOMAIN left : k # 1 => k - 1 \in DOMAIN Tail(left) /\ Tail(left)[k - 1] = left[k]
  BY <1>1, TailFacts
<1>7. /\ \A i, j \in DOMAIN left : i < j => Row(left[i]) < Row(left[j])
      /\ \A e \in Range(catalog), t \in Range(left) : Row(e.system) < Row(t)
  BY <1>2, <1>3 DEF PagesInOrder
<1>8. DOMAIN left \subseteq Nat \ {0} /\ 1 \in DOMAIN left /\ s \in Range(left)
  BY <1>1 DEF Range
<1>9. \A t \in Range(Tail(left)) : t \in Range(left) /\ Row(s) < Row(t)
  <2>1. ASSUME NEW t \in Range(Tail(left))
        PROVE  t \in Range(left) /\ Row(s) < Row(t)
    <3>1. PICK i \in DOMAIN Tail(left) : Tail(left)[i] = t
      BY DEF Range
    <3>2. i + 1 \in DOMAIN left /\ left[i + 1] = t /\ i + 1 # 1
      BY <1>6, <3>1
    <3>3. 1 < i + 1
      BY <1>8, <3>2
    <3>4. QED
      BY <1>7, <1>8, <3>2, <3>3 DEF Range
  <2>2. QED
    BY <2>1
<1> HIDE DEF s
\* What was added, if anything was.
<1>10. ASSUME Added
       PROVE  /\ catalog' \in Seq(Entries) /\ Len(catalog') = Len(catalog) + 1
              /\ Range(catalog') = Range(catalog) \cup {entry}
              /\ Loaded' = Loaded + Len(All)
              /\ CatalogGames' = CatalogGames \cup Range(All)
              /\ \A i, j \in DOMAIN catalog' : i < j =>
                   \/ i \in DOMAIN catalog /\ j \in DOMAIN catalog
                        /\ catalog'[i] = catalog[i] /\ catalog'[j] = catalog[j]
                   \/ i \in DOMAIN catalog /\ catalog'[i] = catalog[i] /\ catalog'[j] = entry
  <2>1. catalog' = Append(catalog, entry)
    BY <1>2, <1>10
  <2>2. entry \in Entries /\ entry.games = All
    BY <1>1, <1>5 DEF Entries
  <2>3. QED
    <3> HIDE DEF entry
    <3>1. QED
      BY <2>1, <2>2, CatalogGrows
<1>11. ASSUME ~Added
       PROVE  catalog' = catalog /\ Loaded' = Loaded /\ CatalogGames' = CatalogGames
              /\ CatalogInOrder'
  <2>1. catalog' = catalog
    BY <1>2, <1>11
  <2>2. QED
    BY <2>1, CatalogStays
<1>12. entry.system = s /\ entry.games = All
  OBVIOUS
<1> HIDE DEF Added, entry
<1>13. DataTypes'
  <2>1. catalog' \in Seq(Entries)
    BY <1>3, <1>10, <1>11 DEF DataTypes
  <2>2. <<>> \in Seq(Games)
    OBVIOUS
  <2>3. QED
    BY <1>2, <1>3, <1>6, <2>1, <2>2 DEF DataTypes
<1>14. (system \in 1..Len(catalog) \/ system = 1)'
  <2>1. CASE Added
    <3>1. Len(catalog) \in Nat /\ Len(catalog') = Len(catalog) + 1
      BY <1>3, <1>10, <2>1 DEF DataTypes
    <3>2. QED
      BY <1>2, <1>3, <3>1
  <2>2. CASE ~Added
    BY <1>2, <1>3, <1>11, <2>2
  <2>3. QED
    BY <2>1, <2>2
<1>15. CatalogInOrder'
  <2>1. CASE Added
    <3>1. ASSUME NEW i \in DOMAIN catalog', NEW j \in DOMAIN catalog', i < j
          PROVE  Row(catalog'[i].system) < Row(catalog'[j].system)
      <4>1. CASE /\ i \in DOMAIN catalog /\ j \in DOMAIN catalog
                 /\ catalog'[i] = catalog[i] /\ catalog'[j] = catalog[j]
        BY <1>3, <3>1, <4>1 DEF CatalogInOrder
      <4>2. CASE i \in DOMAIN catalog /\ catalog'[i] = catalog[i] /\ catalog'[j] = entry
        <5>1. catalog[i] \in Range(catalog)
          BY <4>2 DEF Range
        <5>2. QED
          BY <1>7, <1>8, <1>12, <4>2, <5>1
      <4>3. QED
        BY <1>10, <2>1, <3>1, <4>1, <4>2
    <3>2. ASSUME NEW e \in Range(catalog')
          PROVE  /\ \A g \in Range(e.games) : SystemOf[g] = e.system
                 /\ \A i, j \in DOMAIN e.games : i < j => Place(e.games[i]) < Place(e.games[j])
      <4>1. CASE e \in Range(catalog)
        BY <1>3, <4>1 DEF CatalogInOrder
      <4>2. CASE e = entry
        BY <1>5, <1>12, <4>2
      <4>3. QED
        BY <1>10, <2>1, <4>1, <4>2
    <3>3. QED
      BY <3>1, <3>2 DEF CatalogInOrder
  <2>2. CASE ~Added
    BY <1>11, <2>2
  <2>3. QED
    BY <2>1, <2>2
<1>16. Loaded + Len(All) <= GameCapacity
  <2>1. Len(All) \in Nat /\ Len(Page) \in Nat
    BY <1>4, <1>5
  <2>2. Room = GameCapacity - Loaded - Len(taken)
    BY DEF Room
  <2>3. QED
    BY <1>1, <1>4, <1>5, <2>1, <2>2
<1>17. PagesInOrder'
  <2>1. ASSUME NEW i \in DOMAIN left', NEW j \in DOMAIN left', i < j
        PROVE  Row(left'[i]) < Row(left'[j])
    <3>1. /\ i + 1 \in DOMAIN left /\ left'[i] = left[i + 1]
          /\ j + 1 \in DOMAIN left /\ left'[j] = left[j + 1]
      BY <1>2, <1>6
    <3>2. i + 1 < j + 1
      <4>1. i \in Int /\ j \in Int
        BY <1>2, <1>6
      <4>2. QED
        BY <2>1, <4>1
    <3>3. QED
      BY <1>7, <3>1, <3>2
  <2>2. ASSUME NEW e \in Range(catalog'), NEW t \in Range(left')
        PROVE  Row(e.system) < Row(t)
    <3>1. t \in Range(left) /\ Row(s) < Row(t)
      BY <1>2, <1>9
    <3>2. e \in Range(catalog) \/ e = entry
      BY <1>10, <1>11
    <3>3. QED
      BY <1>7, <1>12, <3>1, <3>2
  <2>3. Loaded' <= GameCapacity
    BY <1>1, <1>10, <1>11, <1>16
  <2>4. Range(taken') = {} /\ DOMAIN taken' = {}
    BY <1>2 DEF Range
  <2>5. /\ Range(left') \subseteq Range(queried')
        /\ \A e \in Range(catalog') : e.system \in Range(queried')
    <3>1. /\ Range(left) \subseteq Range(queried)
          /\ \A e \in Range(catalog) : e.system \in Range(queried)
      BY <1>2, <1>3 DEF PagesInOrder
    <3>2. \A e \in Range(catalog') : e \in Range(catalog) \/ e = entry
      BY <1>10, <1>11
    <3>3. QED
      BY <1>2, <1>8, <1>9, <1>12, <3>1, <3>2
  <2>6. QED
    BY <1>2, <2>1, <2>2, <2>3, <2>4, <2>5 DEF PagesInOrder
<1>18. NoneLost'
  <2>1. ASSUME NEW g \in throughout, SystemOf[g] \in Playable
        PROVE  (g \in CatalogGames \/ Ahead(g) \/ Beyond(g) \/ Unqueried(g))'
    <3>1. g \in listed /\ listed \subseteq Games
      BY <1>3 DEF DataTypes
    <3>2. g \in CatalogGames \/ g \in Range(taken) \/ Ahead(g) \/ Unqueried(g)
      <4>1. ~Beyond(g)
        BY <1>1 DEF Beyond
      <4>2. QED
        BY <1>2, <1>3, <2>1, <4>1 DEF NoneLost
    <3>3. CASE g \in CatalogGames
      BY <1>10, <1>11, <3>3
    <3>4. CASE g \in Range(All)
      <4>1. Added
        <5>1. SystemOf[g] = s
          BY <1>5, <3>4
        <5>2. All # <<>>
          BY <3>4 DEF Range
        <5>3. QED
          BY <2>1, <5>1, <5>2 DEF Added
      <4>2. QED
        BY <1>10, <3>4, <4>1
    <3>5. CASE Ahead(g) /\ g \notin Range(All)
      <4>1. PICK i \in DOMAIN left : left[i] = SystemOf[g] /\ (i = 1 => After(cursor, g))
        BY <3>5 DEF Ahead
      <4>2. CASE i # 1
        <5>1. i - 1 \in DOMAIN left' /\ left'[i - 1] = SystemOf[g] /\ After(cursor', g)
          BY <1>2, <1>6, <4>1, <4>2 DEF After
        <5>2. QED
          BY <5>1 DEF Ahead
      <4>3. CASE i = 1
        <5>1. SystemOf[g] = s /\ SystemOf[g] = left[1] /\ After(cursor, g)
          BY <4>1, <4>3 DEF s
        <5>2. More /\ \A h \in Range(All) : Place(h) < Place(g)
          BY <1>2, <1>5, <3>1, <3>5, <5>1, PageCovers
        <5>3. Len(Page) = Limit /\ Limit = Room
          BY <1>1, <1>4, <5>2
        <5>4. Loaded + Len(All) = GameCapacity /\ All # <<>>
          <6>1. Room = GameCapacity - Loaded - Len(taken)
            BY DEF Room
          <6>2. Len(All) = Len(taken) + Room
            BY <1>5, <5>3
          <6>3. Loaded + Len(All) = GameCapacity
            BY <1>1, <6>1, <6>2
          <6>4. Len(All) # 0
            BY <1>1, <6>2
          <6>5. QED
            BY <6>3, <6>4
        <5>5. Added
          BY <2>1, <5>1, <5>4 DEF Added
        <5>6. Loaded' = GameCapacity /\ CatalogGames' = CatalogGames \cup Range(All)
          BY <1>10, <5>4, <5>5
        <5>7. ASSUME NEW h \in CatalogGames'
              PROVE  Precedes(h, g)
          <6>1. CASE h \in CatalogGames
            <7>1. PICK e \in Range(catalog) : h \in Range(e.games)
              BY <6>1 DEF CatalogGames
            <7>2. SystemOf[h] = e.system
              BY <1>3, <7>1 DEF CatalogInOrder
            <7>3. QED
              BY <1>7, <1>8, <5>1, <7>1, <7>2 DEF Precedes
          <6>2. CASE h \in Range(All)
            BY <1>5, <5>1, <5>2, <6>2 DEF Precedes
          <6>3. QED
            BY <5>6, <5>7, <6>1, <6>2
        <5>8. QED
          BY <5>6, <5>7 DEF Beyond
      <4>4. QED
        BY <4>2, <4>3
    <3>6. CASE Unqueried(g)
      BY <1>2, <3>6 DEF Unqueried
    <3>7. QED
      BY <1>5, <3>2, <3>3, <3>4, <3>5, <3>6
  <2>2. QED
    BY <1>2, <2>1 DEF NoneLost
<1>19. QED
  BY <1>13, <1>14, <1>15, <1>17, <1>18

\* Every page keeps the invariant.
LEMMA ReadPageInvariant ==
  ASSUME IInv, ReadPage
  PROVE  IInv'
<1>1. /\ phase = "games" /\ phase' = "games" /\ ReadStep
      /\ UNCHANGED <<stored, favorites, unloaded>>
  BY ReadPageMeans
<1>2. DataTypes' /\ CatalogInOrder' /\ PagesInOrder' /\ NoneLost'
      /\ (system \in 1..Len(catalog) \/ system = 1)'
  BY PageTurned, PageEnds
<1>3. TypeOK'
  BY <1>1, <1>2, LoadTypes DEF LoadStep
<1>4. NotBegun'
  BY <1>1 DEF NotBegun
<1>5. FavoritesKept'
  BY <1>1 DEF IInv, FavoritesKept
<1>6. QED
  BY <1>1, <1>2, <1>3, <1>4, <1>5, LoadView DEF IInv

-----------------------------------------------------------------------------
(* What holds of every behaviour                                            *)

\* A shell that does nothing keeps the invariant.
LEMMA NothingHappens ==
  ASSUME IInv, UNCHANGED vars
  PROVE  IInv'
<1>1. /\ UNCHANGED <<listed, stored, history>>
      /\ UNCHANGED <<phase, queried, left, cursor, checked, taken, throughout, unloaded>>
      /\ UNCHANGED <<catalog, favorites, recents>>
      /\ UNCHANGED <<destination, system, search, focus>>
      /\ UNCHANGED <<layers, button, action>>
      /\ UNCHANGED <<continue, spent, outcome>>
  BY DEF vars, dataVars, loadVars, listVars, viewVars, layerVars, restVars
<1>2. /\ Source' = Source /\ Loaded' = Loaded /\ CatalogGames' = CatalogGames
      /\ \A l : Shown(l)' = Shown(l)
  BY <1>1 DEF Source, Loaded, CatalogGames, Shown, Contents, GamesOf
<1>3. TypeOK' /\ DataTypes' /\ ViewTypes'
  BY <1>1 DEF IInv, TypeOK, DataTypes, ViewTypes
<1>4. CatalogInOrder' /\ NotBegun' /\ NotShown' /\ PagesInOrder'
  BY <1>1, <1>2 DEF IInv, CatalogInOrder, NotBegun, NotShown, PagesInOrder
<1>5. NoneLost' /\ LoadComplete'
  <2>1. \A g : (Ahead(g)' <=> Ahead(g)) /\ (Beyond(g)' <=> Beyond(g))
                              /\ (Unqueried(g)' <=> Unqueried(g))
    BY <1>1, <1>2 DEF Ahead, Beyond, Unqueried
  <2>2. QED
    BY <1>1, <1>2, <2>1 DEF IInv, NoneLost, LoadComplete
<1>6. FavoritesKept' /\ LayersFit' /\ SearchFits' /\ SettingsListed'
  BY <1>1, <1>2 DEF IInv, FavoritesKept, LayersFit, SearchFits, SettingsListed
<1>7. FocusShown'
  BY <1>1, <1>2 DEF IInv, FocusShown
<1>8. ResultsAreOfList'
  BY <1>1, <1>2 DEF IInv, ResultsAreOfList
<1>9. QED
  BY <1>3, <1>4, <1>5, <1>6, <1>7, <1>8 DEF IInv

\* A shell that begins has read and shown nothing.
LEMMA Begins ==
  ASSUME Init
  PROVE  IInv
<1>1. /\ listed \in SUBSET Games /\ throughout = listed
      /\ stored \in InitialLists /\ history \in InitialLists
      /\ phase = "recents" /\ queried = <<>> /\ left = <<>> /\ cursor = None /\ checked = FALSE /\ taken = <<>>
      /\ catalog = <<>> /\ favorites = <<>> /\ recents = <<>>
      /\ system = 1 /\ search = NoSearch /\ focus = [l \in Lists |-> Fresh(0)]
      /\ button = 0 /\ action = NoAction /\ outcome = None
  BY DEF Init
<1>2. /\ destination \in {"root", "settings"}
      /\ layers \in {{}, {"firstRun"}} /\ spent \in {{}, {"update"}}
  BY DEF Init
<1>3. /\ stored \in Seq(Games) /\ history \in Seq(Games) /\ IsInjective(stored)
  BY <1>1, ShellAssumption
<1>4. \A list \in Seq(Games) : Range(list) \subseteq Games
  BY DEF Range
<1>5. <<>> \in Seq(Games) /\ <<>> \in Seq(Systems) /\ <<>> \in Seq(Entries)
  OBVIOUS
<1>6. DataTypes
  BY <1>1, <1>3, <1>5 DEF DataTypes
<1>7. TypeOK
  <2>1. "firstRun" \in Range(Priority)
    <3>1. 10 \in DOMAIN Priority /\ Priority[10] = "firstRun"
      BY DEF Priority
    <3>2. QED
      BY <3>1 DEF Range
  <2>2. layers \subseteq Range(Priority) /\ spent \subseteq Dialogs
    BY <1>2, <2>1 DEF Dialogs
  <2>3. destination \in GameLists \cup {"root", "apps", "settings"}
    BY <1>2
  <2>4. /\ Range(favorites) \cup Range(recents) \subseteq Games
        /\ Range(stored) \cup Range(history) \subseteq Games
    BY <1>1, <1>3, <1>4, <1>5
  <2>5. QED
    BY <1>1, <2>2, <2>3, <2>4 DEF TypeOK
<1>8. ViewTypes
  <2>1. Fresh(0) \in Focus
    BY DEF Fresh, Focus
  <2>2. NoSearch \in [query : Seq(Chars), active : BOOLEAN, from : Lists \cup {NoList},
                      results : Seq(Nat)]
    BY DEF NoSearch
  <2>3. NoAction \in [game : Games \cup {None}, recent : BOOLEAN]
    BY DEF NoAction
  <2>4. QED
    BY <1>1, <2>1, <2>2, <2>3 DEF ViewTypes
<1>9. CatalogInOrder
  BY <1>1, NothingRead
<1>10. NotBegun /\ NotShown /\ FavoritesKept
  BY <1>1, <1>2, <1>3 DEF NotBegun, NotShown, FavoritesKept
<1>11. PagesInOrder /\ NoneLost /\ LayersFit /\ SearchFits /\ SettingsListed
  BY <1>1 DEF PagesInOrder, NoneLost, LayersFit, SearchFits, SettingsListed
<1>12. FocusShown /\ ResultsAreOfList /\ LoadComplete
  BY <1>1 DEF FocusShown, ResultsAreOfList, LoadComplete
<1>13. QED
  BY <1>6, <1>7, <1>8, <1>9, <1>10, <1>11, <1>12 DEF IInv

\* So does every step.
LEMMA StepsKeep ==
  ASSUME IInv, Next
  PROVE  IInv'
<1>1. CASE UserStep
  BY <1>1, UserInvariant
<1>2. CASE LoadDone
  BY <1>2, LoadDoneInvariant
<1>3. CASE ReadStep
  BY <1>3, LoadListsInvariant, LoadSystemsInvariant, CheckCursorInvariant, ReadPageInvariant,
     LibraryMovesInvariant DEF ReadStep
<1>4. QED
  BY <1>1, <1>2, <1>3, AllSteps DEF LoadStep, UserStep

\* What a shell has read, what it shows and what is stored fit together at any
\* time: while it reads its pages, what was read, what was taken of the page and
\* what is still ahead make up the library that was there all along; from then on
\* the focuses and the results of a search are of the lists as they are.
THEOREM ShellInvariant == Spec => []IInv
<1>1. Init => IInv
  BY Begins
<1>2. IInv /\ [Next]_vars => IInv'
  BY StepsKeep, NothingHappens
<1>3. QED
  BY <1>1, <1>2, PTL DEF Spec

\* The lists hold games of the library, the system shown is one that was read,
\* and only what the dispatch knows is open.
THEOREM ShellTypes == Spec => []TypeOK
<1>1. IInv => TypeOK
  BY DEF IInv
<1>2. QED
  BY <1>1, ShellInvariant, PTL

\* Whatever is scrolled, added, removed, searched or toggled, each focus counts
\* the entries of its list and its selection is on one that the window shows, in
\* Settings never on a heading: bloom_ui_core and the recounts of main.c.
THEOREM ShellFocus == Spec => []FocusShown
<1>1. IInv => FocusShown
  BY DEF IInv
<1>2. QED
  BY <1>1, ShellInvariant, PTL

\* The results of a search are the games of its list that match, in its order,
\* although toggles and removals move what they point at: every such step of
\* main.c makes them again or gives the search up.
THEOREM ShellResults == Spec => []ResultsAreOfList
<1>1. IInv => ResultsAreOfList
  BY DEF IInv
<1>2. QED
  BY <1>1, ShellInvariant, PTL

\* What the shell shows as favorites is what the database holds, whatever
\* toggles the database took or refused.
THEOREM ShellFavorites == Spec => []FavoritesStored
<1>1. IInv => FavoritesStored
  BY DEF IInv, FavoritesKept, FavoritesStored
<1>2. QED
  BY <1>1, ShellInvariant, PTL

\* A shell that starts has read, in order, every game that was there all the
\* time, in as many pages as that took and whatever came and went meanwhile; it
\* lacks some only if it is full, and then only the last: load_catalog.
THEOREM ShellLoads == Spec => []LoadComplete
<1>1. IInv => LoadComplete
  BY DEF IInv
<1>2. QED
  BY <1>1, ShellInvariant, PTL

-----------------------------------------------------------------------------
(* What A launches                                                          *)

\* The two situations of PlaysGameInView's counterexamples: a search that finds
\* nothing, or one that was carried to Settings.
SearchHides ==
  OnTop = "page" /\ search.active /\ (destination = "settings" \/ focus["search"].count = 0)

PlaysAsShown == outcome' \in Games /\ outcome = None /\ ~SearchHides => outcome' = GameInView

\* A on the page of a list launches the game whose focus is drawn there.
LEMMA PagePlays ==
  ASSUME IInv, Play, outcome' \in Games, ~SearchHides
  PROVE  outcome' = GameInView
<1>1. phase = "ready" /\ OnTop = "page" /\ destination # "root"
  BY DEF Play, At
<1>2. SearchFits
  BY DEF IInv
<1>3. CASE search.active
  <2>1. destination \in GameLists /\ focus["search"].count # 0
    BY <1>1, <1>2, <1>3 DEF SearchFits, SearchHides
  <2>2. focus["search"].count > 0
    <3>1. focus["search"].count \in Nat
      BY <1>1, Ready DEF FocusFits, Focus
    <3>2. QED
      BY <2>1, <3>1
  <2>3. outcome' = SelectedGame
    BY <1>3, <2>2 DEF Play, Leave
  <2>4. QED
    BY <1>1, <2>1, <2>3 DEF GameInView, GameLists
<1>4. CASE ~search.active
  <2>1. CASE Source # NoList /\ focus[Source].count > 0
             /\ outcome' = Shown(Source)[focus[Source].selected + 1]
    <3>1. destination \in GameLists
      BY <2>1 DEF Source, GameLists
    <3>2. outcome' = SelectedGame
      BY <1>4, <2>1 DEF SelectedGame
    <3>3. QED
      BY <1>1, <3>1, <3>2 DEF GameInView, GameLists
  <2>2. outcome' # "app"
    BY ShellAssumption
  <2>3. QED
    BY <1>4, <2>1, <2>2 DEF Play, Leave
<1>5. QED
  BY <1>3, <1>4

\* Elsewhere A launches the game its actions are for, or the most recent one.
LEMMA OthersPlay ==
  ASSUME IInv, QuietStep, ~Play, outcome' \in Games, outcome = None
  PROVE  outcome' = GameInView
<1>1. outcome' # outcome /\ outcome' \notin {"switcher", "app", "restart"}
  BY ShellAssumption
<1>2. CASE ActionsPlay
  BY <1>2 DEF ActionsPlay, At, Leave, GameInView
<1>3. CASE RootOpen
  <2>1. OnTop = "page" /\ destination = "root"
    BY <1>3 DEF RootOpen, At
  <2>2. CASE continue
    BY <1>3, <2>1, <2>2 DEF RootOpen, Leave, GameInView
  <2>3. CASE ~continue
    BY <1>1, <1>3, <2>3 DEF RootOpen, GoTo, restVars
  <2>4. QED
    BY <2>2, <2>3
<1>4. CASE SafeMenu
  BY <1>1, <1>4 DEF SafeMenu, GoTo, Ask, Leave, restVars
<1>5. ~Switcher
  BY <1>1 DEF Switcher, Leave
<1>6. ~(FormBack \/ FormSubmit \/ FirstRunDone \/ QuickClose)
  BY <1>1 DEF FormBack, FormSubmit, FirstRunDone, QuickClose, Close
<1>7. ~(DialogStep \/ DialogClose \/ DialogConfirm \/ ActionsRemove)
  BY <1>1 DEF DialogStep, DialogClose, DialogConfirm, ActionsRemove, restVars
<1>8. ~(QuickToggle \/ OpenSettings \/ SearchApply \/ RootFocus \/ SettingsOpen)
  BY <1>1 DEF QuickToggle, OpenSettings, SearchApply, RootFocus, SettingsOpen, Ask, restVars
<1>9. QED
  BY <1>2, <1>3, <1>4, <1>5, <1>6, <1>7, <1>8 DEF QuietStep

\* Apart from these two situations no other game is launched than the one the
\* screen shows the focus on: the dispatch of main.c, whatever was searched,
\* removed or opened before.
THEOREM ShellPlays == Spec => [][PlaysAsShown]_vars
<1>1. ASSUME IInv, [Next]_vars
      PROVE  [PlaysAsShown]_vars
  <2>1. CASE LoadStep
    BY <2>1, LoadFrame, ShellAssumption DEF PlaysAsShown
  <2>2. CASE QuietStep
    BY <1>1, <2>2, PagePlays, OthersPlay DEF PlaysAsShown
  <2>3. CASE FocusStep
    BY <2>3, FocusFrame, ShellAssumption DEF PlaysAsShown, restVars
  <2>4. CASE ListStep
    BY <2>4, ListFrame, ShellAssumption DEF PlaysAsShown
  <2>5. QED
    BY <1>1, <2>1, <2>2, <2>3, <2>4, AllSteps
<1>2. QED
  BY <1>1, ShellInvariant, PTL DEF Spec
=============================================================================
