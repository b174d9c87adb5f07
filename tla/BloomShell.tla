------------------------------ MODULE BloomShell ------------------------------
(***************************************************************************)
(* bloom-shell: one process that reads the library once, then handles one  *)
(* button at a time and leaves when something is staged.  The lists of     *)
(* games it shows are copies; search results point into these copies; the  *)
(* favorites are written through to the database.  While it reads, games   *)
(* may appear and disappear: each query sees the library as it is then.    *)
(***************************************************************************)
EXTENDS BloomUi, Sequences, Functions

CONSTANTS
  Systems, Games,
  SystemOrder, GameOrder,   \* by label and by title: what the queries sort by
  SystemOf,                 \* [Games -> Systems]
  Playable,                 \* systems a core is found for
  SystemCapacity, PageSize, GameCapacity, ListCapacity,   \* 64, 100, 4096, 100
  Rows,                     \* visible_rows
  Settings,                 \* the rows of Settings, each by what A does there:
                            \* "section" (a heading), "own" (its own value),
                            \* "account", "update", or "none"
  Chars,                    \* what the keyboard types
  MaxQuery,                 \* 63
  Matches,                  \* [Games -> SUBSET Seq(Chars)]: in its title
  InitialLists,             \* what the database may hold of favorites, recents
  None,
  MaxMoves, MaxWrites       \* bounds: games that come and go, favorites written

OtherLists == {"favorites", "recent", "apps", "settings", "search", "actions"}
Lists      == Systems \cup OtherLists
GameLists  == {"games", "favorites", "recent"}
NoList     == "none"

ASSUME ShellAssumption ==
  /\ SystemOrder \in Seq(Systems) /\ Range(SystemOrder) = Systems /\ IsInjective(SystemOrder)
  /\ GameOrder \in Seq(Games) /\ Range(GameOrder) = Games /\ IsInjective(GameOrder)
  /\ SystemOf \in [Games -> Systems] /\ Playable \subseteq Systems
  /\ SystemCapacity \in Nat \ {0}
  /\ PageSize \in Nat \ {0} /\ GameCapacity \in Nat \ {0} /\ ListCapacity \in Nat \ {0}
  /\ Rows \in Nat \ {0} /\ MaxQuery \in Nat
  /\ Settings \in Seq({"section", "own", "account", "update", "none"})
  /\ Len(Settings) >= 2 /\ Settings[1] = "section" /\ Settings[2] # "section" /\ Rows >= 2
  /\ \A list \in InitialLists : list \in Seq(Games) /\ IsInjective(list)
  /\ None \notin Games /\ Games \cap {"switcher", "app", "restart"} = {}
  /\ OtherLists \cap Systems = {} /\ NoList \notin Systems
  /\ \A g \in Games : <<>> \in Matches[g]

VARIABLES
  \* the database: games present; favorites and recents in their order
  listed, stored, history,
  \* loading: what comes next; the systems the query returned and those left to
  \* read, the game after which the next page starts, whether it was looked up,
  \* what was read of the system
  phase, queried, left, cursor, checked, taken,
  \* what the shell shows: [system, games] of each system; lists of games
  catalog, favorites, recents,
  safe, destination, system, focus,
  search,       \* the query, whether it is applied, the list it was made from
                \* and the results: pointers into it, as places from 1
  layers,       \* what is open over the destination
  button,       \* of the dialog on top: 0 keeps, 1 does what it asks
  action,       \* the game the actions are for; listed there as a recent game
  continue,     \* the root's focus is on Continue
  account, spent,  \* signed in; dialogs that cannot be opened (again)
  outcome,      \* what was staged: a game, "switcher", "app" or "restart"
  \* history: games listed ever since loading began; stored favorites that were
  \* not loaded; moves and writes so far
  throughout, unloaded, moves, writes

dataVars == <<listed, stored, history>>
loadVars == <<phase, queried, left, cursor, checked, taken, throughout, unloaded, moves>>
listVars == <<catalog, favorites, recents>>
viewVars == <<destination, system, search, focus>>
layerVars == <<layers, button, action>>
restVars == <<safe, continue, account, spent, outcome>>
vars == <<dataVars, loadVars, listVars, viewVars, layerVars, restVars, writes>>

NoAction == [game |-> None, recent |-> FALSE]   \* also once they are closed
NoSearch == [query |-> <<>>, active |-> FALSE, from |-> NoList, results |-> <<>>]

Init ==
  /\ listed \in SUBSET Games /\ throughout = listed
  /\ stored \in InitialLists /\ history \in InitialLists
  /\ phase = "recents" /\ queried = <<>> /\ left = <<>> /\ cursor = None /\ checked = FALSE /\ taken = <<>>
  /\ catalog = <<>> /\ favorites = <<>> /\ recents = <<>>
  /\ safe \in BOOLEAN
  /\ destination \in IF safe THEN {"root"} ELSE {"root", "settings"}   \* --settings
  /\ system = 1 /\ search = NoSearch
  /\ focus = [l \in Lists |-> Fresh(0)]
  /\ layers \in IF safe THEN {{}} ELSE {{}, {"firstRun"}}
  /\ button = 0 /\ action = NoAction
  /\ continue = FALSE
  /\ account \in BOOLEAN
  /\ spent \in {{}, {"update"}}    \* the release is being tested, or is not
  /\ outcome = None /\ unloaded = {} /\ moves = 0 /\ writes = 0

-----------------------------------------------------------------------------
(* Loading: load_catalog                                                   *)

\* What is left of a list when only S is kept.
Kept(list, S) ==
  LET upTo[i \in 0..Len(list)] ==
        IF i = 0 THEN <<>>
        ELSE IF list[i] \in S THEN Append(upTo[i - 1], list[i]) ELSE upTo[i - 1]
  IN upTo[Len(list)]

Ordered(list) == LET present == Kept(list, listed)
                 IN SubSeq(present, 1, Lesser(Len(present), ListCapacity))

LoadRecents ==
  /\ phase = "recents" /\ phase' = "favorites"
  /\ recents' = Ordered(history)
  /\ UNCHANGED <<dataVars, queried, left, cursor, checked, taken, throughout, unloaded, moves,
                 catalog, favorites, viewVars, layerVars, restVars, writes>>

LoadFavorites ==
  /\ phase = "favorites" /\ phase' = "systems"
  /\ favorites' = Ordered(stored)
  /\ unloaded' = Range(stored) \ Range(favorites')
  /\ UNCHANGED <<dataVars, queried, left, cursor, checked, taken, throughout, moves,
                 catalog, recents, viewVars, layerVars, restVars, writes>>

\* The systems that list a game, as many as the array takes.
LoadSystems ==
  /\ phase = "systems" /\ phase' = "games"
  /\ LET present == Kept(SystemOrder, {SystemOf[g] : g \in listed})
     IN queried' = SubSeq(present, 1, Lesser(Len(present), SystemCapacity))
  /\ left' = queried'
  /\ UNCHANGED <<dataVars, cursor, checked, taken, throughout, unloaded, moves,
                 listVars, viewVars, layerVars, restVars, writes>>

\* game_count
Loaded ==
  LET upTo[i \in 0..Len(catalog)] ==
        IF i = 0 THEN 0 ELSE upTo[i - 1] + Len(catalog[i].games)
  IN upTo[Len(catalog)]

\* cursor_exists: the last game of the page before must still be present, or
\* the shell does not start.
CheckCursor ==
  /\ phase = "games" /\ left # <<>> /\ Loaded < GameCapacity /\ ~checked
  /\ IF cursor = None \/ cursor \in listed
       THEN checked' = TRUE /\ phase' = phase
       ELSE checked' = FALSE /\ phase' = "failed"
  /\ UNCHANGED <<dataVars, queried, left, cursor, taken, throughout, unloaded, moves,
                 listVars, viewVars, layerVars, restVars, writes>>

Place(g) == CHOOSE i \in DOMAIN GameOrder : GameOrder[i] = g

After(place, g) == place = None \/ Place(place) < Place(g)

\* Mutant: the next page starts after the game that was read ahead.
NextCursorAhead(found, limit) == found[limit + 1]

\* The last game of a page that others follow.
NextCursor(found, limit) == found[limit]

\* One page; the last page of a system, or of what fits, adds the system.
ReadPage ==
  LET room  == GameCapacity - Loaded - Len(taken)
      limit == Lesser(PageSize, room)
      found == Kept(GameOrder, {g \in listed : SystemOf[g] = Head(left) /\ After(cursor, g)})
      more  == Len(found) > limit
      all   == taken \o (IF more THEN SubSeq(found, 1, limit) ELSE found)
      entry == [system |-> Head(left), games |-> all]
  IN
  /\ phase = "games" /\ checked /\ checked' = FALSE
  /\ IF more /\ limit < room
       THEN /\ cursor' = NextCursor(found, limit)
            /\ taken' = all /\ UNCHANGED <<left, catalog>>
       ELSE /\ cursor' = None /\ taken' = <<>> /\ left' = Tail(left)
            /\ catalog' = IF all # <<>> /\ Head(left) \in Playable
                            THEN Append(catalog, entry) ELSE catalog
  /\ UNCHANGED <<dataVars, phase, queried, throughout, unloaded, moves, favorites, recents,
                 viewVars, layerVars, restVars, writes>>

GamesOf(s) == IF \E e \in Range(catalog) : e.system = s
                THEN (CHOOSE e \in Range(catalog) : e.system = s).games ELSE <<>>

Selectable(row) == Settings[row + 1] # "section"

\* main: every focus is set up; the achievements may not load.
LoadDone ==
  LET Size(l) == CASE l = "favorites" -> Len(favorites) [] l = "recent" -> Len(recents)
                   [] l = "settings" -> Len(Settings) [] l = "apps" -> 1
                   [] l \in Systems -> Len(GamesOf(l))
                   [] OTHER -> 0
  IN
  /\ phase = "games" /\ ~checked /\ (left = <<>> \/ Loaded >= GameCapacity)
  /\ phase' \in IF catalog = <<>> THEN {"ready"} ELSE {"ready", "failed"}
  /\ focus' = [l \in Lists |->
       IF l # "settings" THEN Fresh(Size(l))
       ELSE [Fresh(Size(l)) EXCEPT !.selected =
              CHOOSE r \in 0..Len(Settings) - 1 :
                /\ Selectable(r) /\ \A q \in 0..r - 1 : ~Selectable(q)]]
  /\ continue' = (~safe /\ recents # <<>>)
  /\ UNCHANGED <<dataVars, queried, left, cursor, checked, taken, throughout, unloaded, moves, listVars,
                 destination, system, search, layerVars, safe, account, spent, outcome, writes>>

\* Another process scans or imports meanwhile.
LibraryMoves(g) ==
  /\ phase \in {"recents", "favorites", "systems", "games"} /\ moves < MaxMoves
  /\ listed' = IF g \in listed THEN listed \ {g} ELSE listed \cup {g}
  /\ throughout' = throughout \cap listed' /\ moves' = moves + 1
  /\ UNCHANGED <<stored, history, phase, queried, left, cursor, checked, taken, unloaded,
                 listVars, viewVars, layerVars, restVars, writes>>

-----------------------------------------------------------------------------
(* What a button reaches: the order of main's dispatch                     *)

Dialogs == {"reset", "rollback", "remove", "update", "signOut"}
Priority == <<"reset", "rollback", "remove", "actions", "update", "signOut", "form",
              "search", "quick", "firstRun">>

OnTop ==
  IF layers = {} THEN "page"
  ELSE Priority[CHOOSE i \in DOMAIN Priority :
                  Priority[i] \in layers /\ \A j \in 1..i - 1 : Priority[j] \notin layers]

\* The button reaches this layer, or the destination.
At(layer) == phase = "ready" /\ OnTop = layer

Leave(what) ==
  /\ phase' = "left" /\ outcome' = what
  /\ UNCHANGED <<dataVars, queried, left, cursor, checked, taken, throughout, unloaded, moves, listVars,
                 viewVars, layerVars, safe, continue, account, spent, writes>>

\* game_source: the list a search is made from.
Source == CASE destination = "games" /\ catalog # <<>> -> catalog[system].system
            [] destination \in {"favorites", "recent"} -> destination
            [] OTHER -> NoList

\* The list as it is when the favorites and the recent games are these.
Contents(list, favs, recs) ==
  CASE list = "favorites" -> favs
    [] list = "recent" -> recs
    [] list = NoList -> <<>>
    [] OTHER -> GamesOf(list)
Shown(list) == Contents(list, favorites, recents)

PointedAt(games, place) == IF place \in DOMAIN games THEN games[place] ELSE None

\* bloom_shell_search_rebuild
Rebuilt(query, games) ==
  [query |-> query, active |-> query # <<>>, from |-> Source,
   results |-> Kept([i \in 1..Len(games) |-> i],
                    {i \in 1..Len(games) : query \in Matches[games[i]]})]

Search(query, games) ==
  LET made == Rebuilt(query, games) IN
  /\ search' = made
  /\ focus' = [focus EXCEPT !["search"] = Recounted(@, Len(made.results), Rows)]

\* bloom_shell_search_clear, of the focus as it has become.
Cleared(f) == [f EXCEPT !["search"] = Fresh(0)]

\* selected_game
SelectedGame ==
  IF search.active
    THEN IF focus["search"].count = 0 THEN None
         ELSE PointedAt(Shown(search.from), search.results[focus["search"].selected + 1])
  ELSE IF Source = NoList \/ focus[Source].count = 0 THEN None
  ELSE Shown(Source)[focus[Source].selected + 1]

-----------------------------------------------------------------------------
(* Favorites, written through                                              *)

\* Mutant: the list is changed whatever the database said.
FavoritesIfBlind(g, ok) ==
  IF g \in Range(favorites) THEN Kept(favorites, Games \ {g})
  ELSE IF Len(favorites) < ListCapacity THEN Append(favorites, g) ELSE favorites

\* favorite_toggle, of a database that takes the change or not: at the end, or
\* out of the list.
FavoritesIf(g, ok) ==
  IF ~ok THEN favorites
  ELSE IF g \in Range(favorites) THEN Kept(favorites, Games \ {g})
  ELSE IF Len(favorites) < ListCapacity THEN Append(favorites, g) ELSE favorites

\* bloom_library_favorite_set: not of a game that has gone; nothing to add if
\* it is stored already.
StoredIf(g, ok) ==
  IF ~ok THEN stored
  ELSE IF g \in Range(favorites) THEN Kept(stored, Games \ {g})
  ELSE IF Len(favorites) < ListCapacity /\ g \notin Range(stored) THEN Append(stored, g)
  ELSE stored

\* The change is refused of a game that has gone, or while another process
\* writes: there is no timeout.
Write(g, ok) ==
  /\ ok => g \in listed
  /\ writes' = IF ok THEN writes + 1 ELSE writes
  /\ writes' <= MaxWrites
  /\ favorites' = FavoritesIf(g, ok) /\ stored' = StoredIf(g, ok)

-----------------------------------------------------------------------------
(* Dialogs                                                                 *)

DialogStep ==
  /\ phase = "ready" /\ OnTop \in Dialogs
  /\ button' = 1 - button
  /\ UNCHANGED <<dataVars, loadVars, listVars, viewVars, layers, action, restVars, writes>>

\* B, or A on the first button.  (A dialog that is closed has no button.)
DialogClose ==
  /\ phase = "ready" /\ OnTop \in Dialogs
  /\ layers' = layers \ {OnTop} /\ button' = 0
  /\ UNCHANGED <<dataVars, loadVars, listVars, viewVars, action, restVars, writes>>

\* A on the second button.  A rollback and a reset that failed can be asked for
\* again, a confirmation that failed cannot.
DialogConfirm ==
  /\ phase = "ready" /\ OnTop \in Dialogs \ {"remove"} /\ button = 1
  /\ layers' = layers \ {OnTop} /\ button' = 0
  /\ \E ok \in BOOLEAN :
       /\ spent' = IF OnTop = "update" \/ (ok /\ OnTop # "signOut")
                     THEN spent \cup {OnTop} ELSE spent
       /\ account' = (account /\ ~(ok /\ OnTop = "signOut"))
  /\ UNCHANGED <<dataVars, loadVars, listVars, viewVars, action, safe, continue, outcome, writes>>

\* The recent game is removed, from the database and from the list.
RemoveConfirm ==
  /\ At("remove") /\ button = 1
  /\ LET kept == Kept(recents, Games \ {action.game}) IN
     /\ recents' = kept
     /\ history' = Kept(history, Games \ {action.game})
     /\ focus' = Cleared([focus EXCEPT !["recent"] = Recounted(@, Len(kept), Rows),
                                       !["actions"] = Fresh(0)])
     /\ continue' = (continue /\ kept # <<>>)
  /\ layers' = layers \ {"remove", "actions"} /\ button' = 0 /\ action' = NoAction
  /\ search' = NoSearch
  /\ UNCHANGED <<listed, stored, loadVars, catalog, favorites, destination, system,
                 safe, account, spent, outcome, writes>>

-----------------------------------------------------------------------------
(* Actions for a game                                                      *)

ActionsStep(d) ==
  /\ At("actions")
  /\ focus' = [focus EXCEPT !["actions"] = Moved(@, d, 3)]
  /\ UNCHANGED <<dataVars, loadVars, listVars, destination, system, search,
                 layerVars, restVars, writes>>

ActionsBack ==
  /\ At("actions") /\ layers' = layers \ {"actions"} /\ action' = NoAction
  /\ focus' = [focus EXCEPT !["actions"] = Fresh(0)]
  /\ UNCHANGED <<dataVars, loadVars, listVars, destination, system, search, button,
                 restVars, writes>>

ActionsPlay == At("actions") /\ focus["actions"].selected = 0 /\ Leave(action.game)

ActionsFavorite ==
  /\ At("actions") /\ focus["actions"].selected = 1
  /\ \E ok \in BOOLEAN : Write(action.game, ok)
  /\ focus' = Cleared([focus EXCEPT !["favorites"] = Recounted(@, Len(favorites'), Rows),
                                    !["actions"] = Fresh(0)])
  /\ search' = NoSearch /\ layers' = layers \ {"actions"} /\ action' = NoAction
  /\ UNCHANGED <<listed, history, loadVars, catalog, recents, destination, system,
                 button, restVars>>

ActionsRemove ==
  /\ At("actions") /\ focus["actions"].selected = 2 /\ action.recent
  /\ layers' = layers \cup {"remove"} /\ button' = 0
  /\ UNCHANGED <<dataVars, loadVars, listVars, viewVars, action, restVars, writes>>

-----------------------------------------------------------------------------
(* The account's form, Quick Settings, the first run                       *)

Close(layer) ==
  /\ At(layer) /\ layers' = layers \ {layer}
  /\ UNCHANGED <<dataVars, loadVars, listVars, viewVars, button, action,
                 safe, continue, spent, outcome, writes>>

\* B with nothing typed; a submit that succeeds; the setup that is stored.
FormBack     == Close("form") /\ UNCHANGED account
FormSubmit   == Close("form") /\ account' = TRUE
FirstRunDone == Close("firstRun") /\ UNCHANGED account

\* MENU and START come before Quick Settings and the first run, and after the rest.
Switcher ==
  /\ phase = "ready" /\ OnTop \in {"search", "quick", "firstRun", "page"}
  /\ Leave("switcher")

\* B; or MENU, and the switcher is missing.
QuickClose == Close("quick") /\ UNCHANGED account

QuickToggle ==
  /\ phase = "ready" /\ OnTop \in {"search", "quick", "firstRun", "page"}
  /\ layers' = IF "quick" \in layers THEN layers \ {"quick"}
               ELSE (layers \ {"search"}) \cup {"quick"}
  /\ UNCHANGED <<dataVars, loadVars, listVars, viewVars, button, action, restVars, writes>>

OpenSettings ==
  /\ At("quick")
  /\ layers' = layers \ {"quick"} /\ destination' = "settings"
  /\ UNCHANGED <<dataVars, loadVars, listVars, system, search, focus, button, action,
                 restVars, writes>>

-----------------------------------------------------------------------------
(* The keyboard of the search                                              *)

\* A character is added, unless the buffer is full, or the last one is taken.
SearchType ==
  /\ At("search")
  /\ \E query \in {Append(search.query, c) : c \in Chars}
                 \cup {IF search.query = <<>> THEN <<>>
                       ELSE SubSeq(search.query, 1, Len(search.query) - 1)} :
       Len(query) <= MaxQuery /\ Search(query, Shown(Source))
  /\ UNCHANGED <<dataVars, loadVars, listVars, destination, system, layerVars, restVars, writes>>

SearchApply ==
  /\ At("search") /\ layers' = layers \ {"search"}
  /\ UNCHANGED <<dataVars, loadVars, listVars, viewVars, button, action, restVars, writes>>

SearchBack ==
  /\ At("search") /\ layers' = layers \ {"search"}
  /\ search' = NoSearch /\ focus' = Cleared(focus)
  /\ UNCHANGED <<dataVars, loadVars, listVars, destination, system, button, action,
                 restVars, writes>>
-----------------------------------------------------------------------------
(* The destinations                                                        *)

\* B: home, and the search is given up.
Back ==
  /\ At("page")
  /\ destination' = "root" /\ search' = NoSearch /\ focus' = Cleared(focus)
  /\ UNCHANGED <<dataVars, loadVars, listVars, system, layerVars, restVars, writes>>

GoTo(place) ==
  /\ destination' = place
  /\ UNCHANGED <<dataVars, loadVars, listVars, system, search, focus, layerVars, restVars, writes>>

Ask(dialog) ==
  /\ layers' = layers \cup {dialog} /\ button' = 0
  /\ UNCHANGED <<dataVars, loadVars, listVars, viewVars, action, restVars, writes>>

\* A on a row of the Safe Mode menu; which row is left to choose.
SafeMenu ==
  /\ At("page") /\ safe /\ destination = "root"
  /\ \/ GoTo("games")
     \/ \E dialog \in {"rollback", "reset"} \ spent : Ask(dialog)
     \/ Leave("restart")

\* UP and DOWN on the root of a shell in normal mode.
RootFocus ==
  /\ At("page") /\ ~safe /\ destination = "root"
  /\ continue' = (~continue /\ recents # <<>>)
  /\ UNCHANGED <<dataVars, loadVars, listVars, viewVars, layerVars,
                 safe, account, spent, outcome, writes>>

\* A on the root: the most recent game, or the destination LEFT and RIGHT chose.
RootOpen ==
  /\ At("page") /\ ~safe /\ destination = "root"
  /\ IF continue THEN Leave(recents[1])
     ELSE \E place \in {"games", "favorites", "recent", "apps", "settings"} : GoTo(place)

\* The focus UP, DOWN and the shoulder buttons move: of the results where a
\* search is applied, else of what the destination lists.
Focused == IF search.active THEN "search" ELSE IF Source # NoList THEN Source ELSE destination

\* UP and DOWN, three entries at a time when held in Games; by page.
Scroll ==
  /\ At("page") /\ Focused \in Lists \ {"settings"}
  /\ \E d \in {-1, 1} :
       \/ focus' = [focus EXCEPT ![Focused] = Moved(@, d, Rows)]
       \/ focus' = [focus EXCEPT ![Focused] = Paged(@, d, Rows)]
       \/ /\ Focused \in Systems
          /\ focus' = [focus EXCEPT
               ![Focused] = Moved(Moved(Moved(@, d, Rows), d, Rows), d, Rows)]
  /\ UNCHANGED <<dataVars, loadVars, listVars, destination, system, search,
                 layerVars, restVars, writes>>

\* bloom_shell_settings_next_selectable: the row itself when there is none.
NextRow(row, d) ==
  LET beyond == {r \in 0..Len(Settings) - 1 : Selectable(r) /\ (r - row) * d > 0} IN
  IF beyond = {} THEN row
  ELSE CHOOSE r \in beyond : \A q \in beyond : (r - q) * d <= 0

\* settings_focus_step, one row or, when held, two: only the window follows.
SettingsStepped(f, row) ==
  [f EXCEPT !.selected = row,
            !.start = IF row < f.start THEN row ELSE Greater(f.start, row - Rows + 1)]

\* settings_focus_page
SettingsPaged(f, d) ==
  LET paged == Paged(f, d, Rows)
      ahead == NextRow(paged.selected, d)
      row == IF Selectable(paged.selected) THEN paged.selected
             ELSE IF ahead # paged.selected THEN ahead ELSE NextRow(paged.selected, -d)
  IN IF paged.selected = f.selected THEN paged
     ELSE Reveal([paged EXCEPT !.selected = row], Rows)

SettingsScroll ==
  /\ At("page") /\ Focused = "settings"
  /\ \E d \in {-1, 1} : LET f == focus["settings"]
                            next == NextRow(f.selected, d) IN
       focus' \in {[focus EXCEPT !["settings"] = g] :
                     g \in {SettingsStepped(f, next), SettingsStepped(f, NextRow(next, d)),
                            SettingsPaged(f, d)}}
  /\ UNCHANGED <<dataVars, loadVars, listVars, destination, system, search,
                 layerVars, restVars, writes>>

\* Mutant: the ends are not joined.
SwitchSystemOpen ==
  /\ At("page") /\ destination = "games"
  /\ search' = NoSearch /\ focus' = Cleared(focus)
  /\ \E d \in {-1, 1} : system' = IF Len(catalog) < 2 THEN system ELSE system + d
  /\ UNCHANGED <<dataVars, loadVars, listVars, destination, layerVars, restVars, writes>>

\* LEFT and RIGHT in Games: around the systems.
SwitchSystem ==
  /\ At("page") /\ destination = "games"
  /\ search' = NoSearch /\ focus' = Cleared(focus)
  /\ \E d \in {-1, 1} :
       system' = IF Len(catalog) < 2 THEN system ELSE 1 + ((system - 1 + d) % Len(catalog))
  /\ UNCHANGED <<dataVars, loadVars, listVars, destination, layerVars, restVars, writes>>

\* SELECT
OpenSearch ==
  /\ At("page") /\ destination \in GameLists
  /\ layers' = layers \cup {"search"}
  /\ Search(search.query, Shown(Source))
  /\ UNCHANGED <<dataVars, loadVars, listVars, destination, system, button, action,
                 restVars, writes>>

\* X
OpenActions ==
  /\ At("page") /\ destination \in GameLists /\ SelectedGame # None
  /\ layers' = layers \cup {"actions"}
  /\ action' = [game |-> SelectedGame, recent |-> destination = "recent"]
  /\ focus' = [focus EXCEPT !["actions"] = Fresh(IF destination = "recent" THEN 3 ELSE 2)]
  /\ UNCHANGED <<dataVars, loadVars, listVars, destination, system, search, button,
                 restVars, writes>>

\* Mutant: the results are not made again.
ToggleFavoriteStale ==
  /\ At("page") /\ destination \in GameLists /\ SelectedGame # None
  /\ \E ok \in BOOLEAN : Write(SelectedGame, ok)
  /\ focus' = [focus EXCEPT !["favorites"] = Recounted(@, Len(favorites'), Rows)]
  /\ UNCHANGED <<listed, history, loadVars, catalog, recents, destination, system, search,
                 layerVars, restVars>>

\* Y
ToggleFavorite ==
  /\ At("page") /\ destination \in GameLists /\ SelectedGame # None
  /\ \E ok \in BOOLEAN : Write(SelectedGame, ok)
  /\ LET made == IF search.active
                    THEN Rebuilt(search.query, Contents(Source, favorites', recents))
                    ELSE search
         recounted == [focus EXCEPT !["favorites"] = Recounted(@, Len(favorites'), Rows)] IN
     /\ search' = made
     /\ focus' = IF search.active
                    THEN [recounted EXCEPT !["search"] = Recounted(@, Len(made.results), Rows)]
                    ELSE recounted
  /\ UNCHANGED <<listed, history, loadVars, catalog, recents, destination, system,
                 layerVars, restVars>>

\* A in Settings on a row that has something to open.
SettingsOpen ==
  /\ At("page") /\ destination = "settings"
  /\ LET row == Settings[focus["settings"].selected + 1] IN
     \/ row = "update" /\ "update" \notin spent /\ Ask("update")
     \/ row = "account" /\ account /\ Ask("signOut")
     \/ /\ row = "account" /\ ~account /\ layers' = layers \cup {"form"}
        /\ UNCHANGED <<dataVars, loadVars, listVars, viewVars, button, action, restVars, writes>>

\* A does something of its own there: nothing further is tried.
Handled ==
  destination = "settings" /\
  LET row == Settings[focus["settings"].selected + 1] IN
  row \in {"own", "account"} \cup ({"update"} \ spent)

\* A otherwise: the result of the search, or the game of the destination.
Play ==
  /\ At("page") /\ destination # "root" /\ ~Handled
  /\ IF search.active /\ focus["search"].count > 0 THEN Leave(SelectedGame)
     ELSE \/ Source # NoList /\ focus[Source].count > 0
             /\ Leave(Shown(Source)[focus[Source].selected + 1])
          \/ destination = "apps" /\ focus["apps"].count > 0 /\ Leave("app")

Next ==
  \/ LoadRecents \/ LoadFavorites \/ LoadSystems \/ CheckCursor \/ ReadPage \/ LoadDone
  \/ \E g \in Games : LibraryMoves(g)
  \/ DialogStep \/ DialogClose \/ DialogConfirm \/ RemoveConfirm
  \/ \E d \in {-1, 1} : ActionsStep(d)
  \/ ActionsBack \/ ActionsPlay \/ ActionsFavorite \/ ActionsRemove
  \/ FormBack \/ FormSubmit \/ FirstRunDone \/ Switcher \/ QuickClose \/ QuickToggle
  \/ OpenSettings \/ SearchType \/ SearchApply \/ SearchBack
  \/ Back \/ SafeMenu \/ RootFocus \/ RootOpen \/ Scroll \/ SettingsScroll \/ SwitchSystem
  \/ OpenSearch \/ OpenActions \/ ToggleFavorite \/ SettingsOpen \/ Play

Spec == Init /\ [][Next]_vars

-----------------------------------------------------------------------------
(* Properties                                                              *)

TypeOK ==
  /\ phase \in {"recents", "favorites", "systems", "games", "ready", "left", "failed"}
  /\ Range(favorites) \cup Range(recents) \subseteq Games
  /\ Range(stored) \cup Range(history) \subseteq Games
  /\ destination \in GameLists \cup {"root", "apps", "settings"}
  /\ system \in 1..Len(catalog) \/ system = 1
  /\ layers \subseteq Range(Priority) /\ button \in {0, 1}
  /\ spent \subseteq Dialogs
  /\ outcome \in Games \cup {None, "switcher", "app", "restart"}

\* Lists "clamp at their ends, keep selection visible": each focus has the
\* length of its list, whatever was added to it, taken out of it or filtered,
\* its selection is on an entry in the window, in Settings never on a heading.
FocusShown == phase = "ready" =>
  /\ \A l \in Lists : Visible(focus[l], IF l = "actions" THEN 3 ELSE Rows)
  /\ \A l \in {"favorites", "recent"} : focus[l].count = Len(Shown(l))
  /\ \A e \in Range(catalog) : focus[e.system].count = Len(e.games)
  /\ focus["search"].count = Len(search.results)
  /\ Selectable(focus["settings"].selected)

\* The results of a search are pointers into arrays that favorites and removals
\* move: in the list it was made from they are, at any time, exactly the games
\* that match, in the list's order.
ResultsAreOfList == phase = "ready" /\ search.active =>
  /\ Source \in {search.from, NoList}
  /\ [i \in DOMAIN search.results |-> PointedAt(Shown(search.from), search.results[i])]
       = Kept(Shown(search.from), {g \in Games : search.query \in Matches[g]})

Before(list, g, h) == \E i, j \in DOMAIN list : i < j /\ list[i] = g /\ list[j] = h

\* What the shell shows as favorites is what is stored: nothing more, nothing
\* less than what it could load, in the stored order (except for games it was
\* not shown when it loaded), after any toggles that succeeded or failed.
FavoritesStored == phase = "ready" =>
  /\ IsInjective(favorites)
  /\ Range(stored) \ unloaded \subseteq Range(favorites)
  /\ Range(favorites) \subseteq Range(stored)
  /\ \A g, h \in Range(favorites) \ unloaded :
       Before(favorites, g, h) => Before(stored, g, h)

Row(s) == CHOOSE i \in DOMAIN SystemOrder : SystemOrder[i] = s
Precedes(g, h) == \/ Row(SystemOf[g]) < Row(SystemOf[h])
                  \/ SystemOf[g] = SystemOf[h] /\ Place(g) < Place(h)
CatalogGames == UNION {Range(e.games) : e \in Range(catalog)}

\* The query was full before it came to this game's system.
Unqueried(g) == /\ Len(queried) = SystemCapacity
                /\ \A s \in Range(queried) : Row(s) < Row(SystemOf[g])

\* A shell that starts has read the games of the playable systems that were
\* there all the time, once and in order (of systems, then titles), in as many
\* pages as it took and whatever came and went between them.  Missing are only
\* games behind all it read: where it holds as many games as it can, or as many
\* systems as the query returns are before theirs.
LoadComplete == phase = "ready" =>
  /\ \A i, j \in DOMAIN catalog : i < j => Row(catalog[i].system) < Row(catalog[j].system)
  /\ \A e \in Range(catalog) :
       /\ \A g \in Range(e.games) : SystemOf[g] = e.system
       /\ \A i, j \in DOMAIN e.games : i < j => Place(e.games[i]) < Place(e.games[j])
  /\ \A g \in throughout \ CatalogGames : SystemOf[g] \in Playable =>
       /\ Loaded = GameCapacity \/ Unqueried(g)
       /\ \A h \in CatalogGames : Precedes(h, g)

\* The game the screen shows the focus on, as draw paints it.
GameInView ==
  IF OnTop = "actions" THEN action.game
  ELSE IF OnTop # "page" \/ destination \in {"apps", "settings"} THEN None
  ELSE IF destination = "root" THEN IF continue THEN recents[1] ELSE None
  ELSE SelectedGame

\* "`A` launches" the game that "Up/Down selects", and "Search is a SELECT
\* overlay on Games, Favorites, and Recent": no other game is ever launched.
PlaysGameInView == [][outcome' \in Games /\ outcome = None => outcome' = GameInView]_vars
=============================================================================
