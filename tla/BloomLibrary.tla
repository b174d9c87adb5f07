----------------------------- MODULE BloomLibrary -----------------------------
(***************************************************************************)
(* The library service: the catalog of systems, applications and games     *)
(* that bloom-library keeps in catalog.sqlite3, and the favorites and      *)
(* recent games beside it.                                                 *)
(*                                                                         *)
(* Commands are processes of their own (the boot's import, bloomctl, the   *)
(* session, the shell, the game switcher).  A writing transaction begins   *)
(* with BEGIN IMMEDIATE and is one step; what a command reads before its   *)
(* transaction, from the database or from the card, is a step before it,   *)
(* and other commands and the card may move in between.                    *)
(***************************************************************************)
EXTENDS Integers, Sequences, Functions

CONSTANTS
  Systems, Apps,    \* entries an emulator's or an application's config makes
  Games,            \* a file of a ROM folder; its id follows from its path
  SystemOf,         \* [Games -> Systems]
  Homes,            \* [Games -> SUBSET Stamps]: the configs of its system
                    \* that name the folder the file lies in
  Stamps,           \* size, time and content of a file, as the code compares them
  First,            \* the stamp of what the card came with
  RecentLimit,      \* 100
  OnionLists,       \* what is left of a list of MainUI's when the lines that
                    \* match no game, or a game again, are dropped
  Idle,             \* no command of that kind is running
  Openers,          \* processes that open the database at the same time
  Scanners,         \* processes that scan at the same time
  MaxChanges        \* bound on changes of the card and of the lists

ASSUME LibraryAssumption ==
  /\ SystemOf \in [Games -> Systems] /\ Homes \in [Games -> SUBSET Stamps]
  /\ Systems \cap Apps = {}
  /\ Stamps \subseteq Nat \ {0} /\ First \in Stamps
  /\ RecentLimit \in Nat \ {0}
  /\ \A list \in OnionLists :
       list \in Seq(Games) /\ \A i, j \in DOMAIN list : list[i] = list[j] => i = j
  /\ MaxChanges \in Nat

VARIABLES
  \* the card: config.json of each entry and the ROM files, 0 when missing
  \* (or, of a file, when it cannot be inspected: the scan goes on without it)
  config, file,
  \* systems and apps: the config each row was made from, the rows present
  row, here,
  \* games: the file each row was made from, the rows present
  game, listed,
  generation,           \* library_state.generation, to tell a change: 0 or 1
  favorite, recent,     \* positions, NoRow where a game has none
  \* what commands have read before their transaction
  scanning,             \* each scan: the systems with their configs, or Idle
  adopting,             \* import-legacy: the two lists, or Idle
  schema, opening,      \* schema_version; the version each opener goes by
  \* history: systems whose last scan went by the row they still have, and
  \* whose files have not changed since; changes so far
  settled, changes

cardVars    == <<config, file>>
catalogVars == <<row, here, game, listed, generation>>
listVars    == <<favorite, recent>>
pendingVars == <<scanning, adopting>>
schemaVars  == <<schema, opening>>
vars == <<cardVars, catalogVars, listVars, pendingVars, schemaVars, settled, changes>>

Entries == Systems \cup Apps
NoRow == -1
Current == 4       \* BLOOM_LIBRARY_DATABASE_SCHEMA_VERSION

Empty == [g \in Games |-> NoRow]

\* A new card, or one whose catalog is up to date.
Init ==
  /\ config = [e \in Entries |-> First] /\ file = [g \in Games |-> First]
  /\ favorite = Empty /\ recent = Empty
  /\ scanning = [c \in Scanners |-> Idle] /\ adopting = Idle
  /\ opening = [c \in Openers |-> Current]
  /\ changes = 0 /\ generation = 0
  /\ \/ /\ schema \in 0..Current - 1
        /\ row = [e \in Entries |-> 0] /\ here = {}
        /\ game = [g \in Games |-> 0] /\ listed = {}
        /\ settled = {}
     \/ /\ schema = Current
        /\ row = config /\ here = Entries
        /\ listed = {g \in Games : config[SystemOf[g]] \in Homes[g]}
        /\ game = [g \in Games |-> IF g \in listed THEN file[g] ELSE 0]
        /\ settled = Systems

-----------------------------------------------------------------------------
(* Opening: bloom_library_database_open and migrate                        *)

OpenRead(c) ==
  /\ opening[c] = Current /\ schema < Current
  /\ opening' = [opening EXCEPT ![c] = schema]
  /\ UNCHANGED <<cardVars, catalogVars, listVars, pendingVars, schema, settled, changes>>

\* The version a step leads to; a new database is made as it is now.
Migrated(v) == IF v = 0 THEN Current ELSE v + 1

\* Mutant: the steps are made harmless to repeat (IF NOT EXISTS).
MigrateRepeated(c) ==
  /\ opening[c] < Current
  /\ schema' = Migrated(opening[c])
  /\ opening' = [opening EXCEPT ![c] = schema']
  /\ UNCHANGED <<cardVars, catalogVars, listVars, pendingVars, settled, changes>>

\* Each step is a transaction; of one that was taken by another process in the
\* meantime, the CREATE or ALTER fails, and so does the command.
Migrate(c) ==
  /\ opening[c] < Current
  /\ schema' = IF schema = opening[c] THEN Migrated(schema) ELSE schema
  /\ opening' = [opening EXCEPT ![c] = IF schema = opening[c] THEN schema' ELSE Current]
  /\ UNCHANGED <<cardVars, catalogVars, listVars, pendingVars, settled, changes>>

\* The process is killed, or the power fails, between two steps.
OpenKilled(c) ==
  /\ opening[c] < Current
  /\ opening' = [opening EXCEPT ![c] = Current]
  /\ UNCHANGED <<cardVars, catalogVars, listVars, pendingVars, schema, settled, changes>>

Open == schema = Current

-----------------------------------------------------------------------------
(* The catalog                                                             *)

Bump(changed) == generation' = IF changed THEN 1 - generation ELSE generation

\* Mutant: rows that come back are not taken for a change.
ImportQuietReturn ==
  LET seen == {e \in Entries : config[e] # 0}
      made == [e \in Entries |-> IF e \in seen THEN config[e] ELSE row[e]] IN
  /\ Open
  /\ seen \cap Systems # {} /\ seen \cap Apps # {}
  /\ row' = made /\ here' = seen
  /\ Bump(row # made \/ here \ seen # {})
  /\ settled' = {s \in settled : made[s] = row[s]}
  /\ UNCHANGED <<cardVars, game, listed, listVars, pendingVars, schemaVars, changes>>

\* import-onion: every config is read and upserted, rows that were not seen are
\* marked absent, and the generation moves if any row did.  A catalog without a
\* system or an application, or a config that is not valid, rolls it back.
Import ==
  LET seen == {e \in Entries : config[e] # 0}
      made == [e \in Entries |-> IF e \in seen THEN config[e] ELSE row[e]] IN
  /\ Open
  /\ seen \cap Systems # {} /\ seen \cap Apps # {}
  /\ row' = made /\ here' = seen
  /\ Bump(row # made \/ here # seen)
  /\ settled' = {s \in settled : made[s] = row[s]}
  /\ UNCHANGED <<cardVars, game, listed, listVars, pendingVars, schemaVars, changes>>

\* load_systems: the systems present, or the one asked for.  Nothing keeps another
\* scan or an import from committing before this scan's transaction begins.
ScanLoad(c, wanted) ==
  LET found == here \cap wanted IN
  /\ Open /\ scanning[c] = Idle
  /\ found # {}
  /\ scanning' = [scanning EXCEPT ![c] = [s \in found |-> row[s]]]
  /\ UNCHANGED <<cardVars, catalogVars, listVars, adopting, schemaVars,
                 settled, changes>>

\* The files a scan that went by these configs finds.
SeenBy(by) ==
  {g \in Games : /\ SystemOf[g] \in DOMAIN by /\ file[g] \in Stamps
                 /\ by[SystemOf[g]] \in Homes[g]}

\* A scan that went by a row an import has since replaced settles nothing, and
\* takes back what another scan had settled by the new row.
Settles(by) ==
  settled' = (settled \ DOMAIN by) \cup {s \in DOMAIN by : by[s] = row[s]}

\* Mutant: every game the scan has not seen is marked absent.
ScanForgets(c) ==
  LET seen == SeenBy(scanning[c])
      made == [g \in Games |-> IF g \in seen THEN file[g] ELSE game[g]] IN
  /\ scanning[c] # Idle
  /\ scanning' = [scanning EXCEPT ![c] = Idle]
  /\ game' = made /\ listed' = seen
  /\ Bump(game # made \/ listed # listed')
  /\ Settles(scanning[c])
  /\ UNCHANGED <<cardVars, row, here, listVars, adopting, schemaVars, changes>>

\* The transaction: each scanned system's folder is walked, readable files with
\* a known extension are upserted, games of these systems that were not seen
\* are marked absent.
Scan(c) ==
  LET seen == SeenBy(scanning[c])
      made == [g \in Games |-> IF g \in seen THEN file[g] ELSE game[g]] IN
  /\ scanning[c] # Idle
  /\ scanning' = [scanning EXCEPT ![c] = Idle]
  /\ game' = made
  /\ listed' = seen \cup {g \in listed : SystemOf[g] \notin DOMAIN scanning[c]}
  /\ Bump(game # made \/ listed # listed')
  /\ Settles(scanning[c])
  /\ UNCHANGED <<cardVars, row, here, listVars, adopting, schemaVars, changes>>

\* A folder that is a link or cannot be opened, or a database error: ROLLBACK.
ScanFails(c) ==
  /\ scanning[c] # Idle
  /\ scanning' = [scanning EXCEPT ![c] = Idle]
  /\ UNCHANGED <<cardVars, catalogVars, listVars, adopting, schemaVars,
                 settled, changes>>

-----------------------------------------------------------------------------
(* The lists                                                               *)

Change == changes < MaxChanges /\ changes' = changes + 1

\* COALESCE(MAX(position) + 1, 0)
NextPosition(list) ==
  CHOOSE p \in {0} \cup {list[g] + 1 : g \in Games} : \A g \in Games : list[g] < p

\* Mutant: the second UPDATE, back from the negative positions, is left out.
WithoutReturn(list, g) ==
  [h \in Games |-> IF h = g THEN NoRow ELSE IF list[h] > list[g] THEN -list[h] - 1 ELSE list[h]]

\* The row is deleted and those behind it move up, through negative positions
\* because they are unique.
Without(list, g) ==
  [h \in Games |-> IF h = g THEN NoRow ELSE IF list[h] > list[g] THEN list[h] - 1 ELSE list[h]]

\* Mutant: the others keep their positions.
PromotedOver(list, g) == [list EXCEPT ![g] = 0]

\* The row is deleted, every other one moves down, also those that were behind
\* it, and what reaches the limit is deleted.
Promoted(list, g) ==
  IF list[g] = 0 THEN list
  ELSE [h \in Games |-> IF h = g THEN 0
                        ELSE IF list[h] = NoRow \/ list[h] + 1 >= RecentLimit THEN NoRow
                        ELSE list[h] + 1]

\* bloom_library_favorite_set, of a game that is present.
FavoriteSet(g) ==
  /\ Open /\ g \in listed /\ favorite[g] = NoRow
  /\ Change
  /\ favorite' = [favorite EXCEPT ![g] = NextPosition(favorite)]
  /\ UNCHANGED <<cardVars, catalogVars, recent, pendingVars, schemaVars, settled>>

FavoriteUnset(g) ==
  /\ Open /\ g \in listed /\ favorite[g] # NoRow
  /\ Change
  /\ favorite' = Without(favorite, g)
  /\ UNCHANGED <<cardVars, catalogVars, recent, pendingVars, schemaVars, settled>>

\* bloom_library_recent_record
RecentRecord(g) ==
  /\ Open /\ g \in listed
  /\ Change
  /\ recent' = Promoted(recent, g)
  /\ UNCHANGED <<cardVars, catalogVars, favorite, pendingVars, schemaVars, settled>>

\* gameswitcher_library_remove_recent, also of a game that is not present.
RecentRemove(g) ==
  /\ Open /\ recent[g] # NoRow
  /\ Change
  /\ recent' = Without(recent, g)
  /\ UNCHANGED <<cardVars, catalogVars, favorite, pendingVars, schemaVars, settled>>

\* load_list of both files: every line is looked up among the games present; a
\* missing file is an empty list.
LegacyLoad ==
  /\ Open /\ adopting = Idle
  /\ Change
  /\ \E favorites, recents \in OnionLists :
       /\ Range(favorites) \cup Range(recents) \subseteq listed
       /\ adopting' = [favorites |-> favorites, recents |-> recents]
  /\ UNCHANGED <<cardVars, catalogVars, listVars, scanning, schemaVars, settled>>

\* Mutant: positions from 1, as the lines are counted.
PublishedFromOne(list) ==
  [g \in Games |-> IF g \in Range(list) THEN CHOOSE i \in DOMAIN list : list[i] = g ELSE NoRow]

\* publish_list: consecutive positions from 0.
Published(list) ==
  [g \in Games |-> IF g \in Range(list)
                     THEN (CHOOSE i \in DOMAIN list : list[i] = g) - 1 ELSE NoRow]

LegacyPublish ==
  /\ adopting # Idle
  /\ favorite' = Published(adopting.favorites) /\ recent' = Published(adopting.recents)
  /\ adopting' = Idle
  /\ UNCHANGED <<cardVars, catalogVars, scanning, schemaVars, settled, changes>>

-----------------------------------------------------------------------------
(* The card: files and configs are copied, changed and removed.            *)

FileChanges(g) ==
  /\ Change
  /\ file' \in {[file EXCEPT ![g] = f] : f \in (Stamps \cup {0}) \ {file[g]}}
  /\ settled' = settled \ {SystemOf[g]}
  /\ UNCHANGED <<config, catalogVars, listVars, pendingVars, schemaVars>>

ConfigChanges(e) ==
  /\ Change
  /\ config' \in {[config EXCEPT ![e] = f] : f \in (Stamps \cup {0}) \ {config[e]}}
  /\ UNCHANGED <<file, catalogVars, listVars, pendingVars, schemaVars, settled>>

Next ==
  \/ \E c \in Openers : OpenRead(c) \/ Migrate(c) \/ OpenKilled(c)
  \/ Import
  \/ \E c \in Scanners :
       \/ \E wanted \in {Systems} \cup {{s} : s \in Systems} : ScanLoad(c, wanted)
       \/ Scan(c) \/ ScanFails(c)
  \/ \E g \in Games :
       FavoriteSet(g) \/ FavoriteUnset(g) \/ RecentRecord(g) \/ RecentRemove(g)
  \/ LegacyLoad \/ LegacyPublish
  \/ \E g \in Games : FileChanges(g)
  \/ \E e \in Entries : ConfigChanges(e)

Spec == Init /\ [][Next]_vars

-----------------------------------------------------------------------------
(* Properties                                                              *)

TypeOK ==
  /\ config \in [Entries -> Stamps \cup {0}]
  /\ file \in [Games -> Stamps \cup {0}]
  /\ row \in [Entries -> Stamps \cup {0}] /\ here \subseteq Entries
  /\ game \in [Games -> Stamps \cup {0}] /\ listed \subseteq Games
  /\ generation \in {0, 1}
  /\ favorite \in [Games -> Nat \cup {NoRow}] /\ recent \in [Games -> Nat \cup {NoRow}]
  /\ schema \in 0..Current /\ opening \in [Openers -> 0..Current]
  /\ settled \subseteq Systems /\ changes \in 0..MaxChanges

\* The positions of favorites are 0, 1, 2, ... without a gap or a repetition,
\* whatever is added, removed and adopted in between ("compact favorite
\* ordering"): MAX(position) + 1 never collides and no shift goes astray.
FavoritesCompact ==
  \A g \in Games : favorite[g] # NoRow =>
    /\ \A h \in Games : favorite[h] = favorite[g] => h = g
    /\ favorite[g] > 0 => \E h \in Games : favorite[h] = favorite[g] - 1

\* The readers' view of a system is the card's, for as long as its files are those
\* of the scan of it that committed last, and its row is the one that scan went by.
\* Scans of other systems, overlapping scans of this one and imports that leave its
\* row alone do no harm ("atomically invalidates only the systems included in that
\* scan"); a scan that read its row before an import replaced it, and commits after
\* it, does: then the view waits for the next scan.
SettledAsOnCard ==
  \A s \in settled : \A g \in Games : SystemOf[g] = s =>
    /\ g \in listed <=> file[g] \in Stamps /\ row[s] \in Homes[g]
    /\ g \in listed => game[g] = file[g]

\* The generation moves exactly when a row a reader could see does: a reader
\* that finds the same generation has missed nothing, and an unchanged repeat
\* is a no-op.
GenerationTells ==
  [][generation' # generation <=>
       <<row, here, game, listed>>' # <<row, here, game, listed>>]_vars

\* Processes that migrate at the same time never take the schema back.
SchemaOnlyAdvances == [][schema' >= schema]_vars

Shown(list) == {g \in Games : list[g] # NoRow}
Order(list) == {p \in Shown(list) \X Shown(list) : list[p[1]] < list[p[2]]}

Lists == INSTANCE GameLists WITH
  favorites <- Shown(favorite), favoriteOrder <- Order(favorite),
  recents <- Shown(recent), recentOrder <- Order(recent),
  replacing <- adopting # Idle

\* Positions and their shifts implement the two ordered sets the surfaces show.
ListsKept == Lists!Spec
=============================================================================
