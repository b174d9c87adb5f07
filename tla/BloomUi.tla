-------------------------------- MODULE BloomUi --------------------------------
(***************************************************************************)
(* The focus of a list on the screen: how many entries there are, which    *)
(* one is selected (from 0) and which one the window starts with.          *)
(***************************************************************************)
EXTENDS Integers

Fresh(n) == [count |-> n, selected |-> 0, start |-> 0]

Lesser(a, b)  == IF a < b THEN a ELSE b
Greater(a, b) == IF a > b THEN a ELSE b

\* Mutant: the window is not drawn back when the list has become shorter.
RevealForward(f, rows) ==
  LET selected == Lesser(f.selected, f.count - 1)
      start == IF selected < f.start THEN selected ELSE Greater(f.start, selected - rows + 1)
  IN IF f.count = 0 THEN Fresh(0)
     ELSE [count |-> f.count, selected |-> selected, start |-> start]

\* reveal_selection, of a screen with rows > 0.
Reveal(f, rows) ==
  LET selected == Lesser(f.selected, f.count - 1)
      start == IF selected < f.start THEN selected ELSE Greater(f.start, selected - rows + 1)
  IN IF f.count = 0 THEN Fresh(0)
     ELSE [count |-> f.count, selected |-> selected,
           start |-> Lesser(start, Greater(f.count - rows, 0))]

Recounted(f, n, rows) == Reveal([f EXCEPT !.count = n], rows)

\* bloom_ui_focus_step and bloom_ui_focus_page: to the neighbour, or by a
\* window less one row; the ends clamp.
Moved(f, distance, rows) ==
  IF f.count = 0 THEN f
  ELSE Reveal([f EXCEPT !.selected = Greater(0, Lesser(f.selected + distance, f.count - 1))], rows)

Paged(f, direction, rows) == Moved(f, direction * Greater(rows - 1, 1), rows)

\* The selection is an entry and inside the window, and the window is full
\* when the list is long enough to fill it.
Visible(f, rows) ==
  IF f.count = 0 THEN f = Fresh(0)
  ELSE /\ f.selected \in 0..f.count - 1
       /\ f.start <= f.selected /\ f.selected < f.start + rows
       /\ f.start \in 0..Greater(f.count - rows, 0)
=============================================================================
