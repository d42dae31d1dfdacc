------------------------------ MODULE TuiScope ------------------------------
(***************************************************************************)
(* The scope page of a manual backup (internal/tui): which databases and   *)
(* which of their tables the next logical backup is restricted to.  The    *)
(* lists come from the server through asynchronous commands, so an answer  *)
(* arrives after the operator has gone on.  Each operator below is a       *)
(* method of the model with the same effect on the fields of scope.        *)
(***************************************************************************)
EXTENDS Integers, Sequences, SequencesExt

CONSTANTS
  Granted,      \* the databases listDatabases returns, in its order
  TablesOf,     \* TablesOf[d]: the tables and views of database d, in order
  Queries,      \* search texts, each given as the set of names it matches
  EnvScopes,    \* scopes the .env file may hold: [dbs, tables]
  MaxAsked,     \* bound: discovery commands in flight
  PageStep      \* rows a PgUp or PgDn moves; a column of the table grid

DatabaseNames == Range(Granted)
TableNames == UNION {Range(TablesOf[d]) : d \in DatabaseNames}
NoTables == [d \in DatabaseNames |-> {}]
ASSUME ScopeAssumption ==
  /\ Granted \in Seq(STRING) /\ \A d \in DatabaseNames : TablesOf[d] \in Seq(STRING)
  /\ \A env \in EnvScopes : /\ env.dbs \subseteq DatabaseNames
                            /\ env.tables \in [DatabaseNames -> SUBSET TableNames]
  /\ TableNames \in Queries /\ MaxAsked \in Nat /\ PageStep \in Nat

Moves == {-PageStep, -1, 1, PageStep}

VARIABLES
  scope,        \* the scope fields of the model; marks and cursors count from 1, 0 is none
  listing,      \* loadScopeDatabases is in flight
  asked         \* asked[d]: loadScopeTables(d) commands in flight

scopeVars == <<scope, listing, asked>>

ScopeTypeOK ==
  /\ scope.level \in {"databases", "tables"}
  /\ scope.dbs \in {<<>>, Granted}
  /\ scope.tables \in {<<>>} \cup {TablesOf[d] : d \in DatabaseNames}
  /\ scope.dbIndex \in 0..Len(Granted) /\ scope.dbMark \in 0..Len(Granted)
  /\ {scope.tableIndex, scope.tableMark} \subseteq 0..Len(scope.tables)
  /\ scope.filter \in Queries /\ scope.search \in BOOLEAN /\ scope.loading \in BOOLEAN
  /\ scope.selDbs \subseteq DatabaseNames
  /\ scope.selTables \in [DatabaseNames -> SUBSET TableNames]
  /\ listing \in BOOLEAN
  /\ asked \in [DatabaseNames -> 0..MaxAsked]

(* loadScopeFromConfig: a database with listed tables counts as selected.  *)
Loaded(s, env) ==
  [s EXCEPT !.selDbs = env.dbs \cup {d \in DatabaseNames : env.tables[d] # {}},
            !.selTables = env.tables]

ScopeInit ==
  /\ \E env \in EnvScopes :
       scope = Loaded([level |-> "databases", dbs |-> <<>>, tables |-> <<>>,
                       dbIndex |-> 0, dbMark |-> 0, tableIndex |-> 0, tableMark |-> 0,
                       filter |-> TableNames, search |-> FALSE, loading |-> FALSE,
                       selDbs |-> {}, selTables |-> NoTables], env)
  /\ listing = FALSE
  /\ asked = [d \in DatabaseNames |-> 0]

-----------------------------------------------------------------------------
(* Cursors, ranges and the search filter.                                  *)

ClampMut(i, n) == IF i < 1 THEN 1 ELSE IF i > n + 1 THEN n + 1 ELSE i

Clamp(i, n) == IF i < 1 THEN 1 ELSE IF i > n THEN n ELSE i
Between(i, j) == IF i <= j THEN i..j ELSE j..i
Current(s) == s.dbs[s.dbIndex]

VisibleTables(s) == {i \in DOMAIN s.tables : s.tables[i] \in s.filter}

DBRange(s) == Between(IF s.dbMark = 0 THEN s.dbIndex ELSE s.dbMark, s.dbIndex)

(* markedScopeTableIndexes: the visible tables from the mark to the cursor. *)
TableRange(s) ==
  LET visible == VisibleTables(s)
      start == IF s.tableMark \in visible THEN s.tableMark ELSE s.tableIndex
      stop  == IF s.tableIndex \in visible THEN s.tableIndex ELSE start
  IN  visible \cap Between(start, stop)

EnsureTableVisibleMut(s) == s

EnsureTableVisible(s) ==
  LET visible == VisibleTables(s) IN
  IF visible = {} THEN s
  ELSE [s EXCEPT
          !.tableIndex = IF @ \in visible THEN @ ELSE Min(visible),
          !.tableMark  = IF @ \in visible THEN @ ELSE 0]

(* scopeVisibleTablePosition, which counts from 1 here.                    *)
Position(s, i) == Cardinality({j \in VisibleTables(s) : j <= i})

(* moveScopeTableSelection: by positions among the visible tables.         *)
MoveTable(s, delta) ==
  LET visible == VisibleTables(s)
      last    == Cardinality(visible)
      to      == IF s.tableIndex \in visible THEN Clamp(Position(s, s.tableIndex) + delta, last)
                 ELSE IF delta < 0 THEN last ELSE 1
  IN  IF visible = {} THEN s
      ELSE [s EXCEPT !.tableIndex = CHOOSE i \in visible : Position(s, i) = to]

MoveSelection(s, delta) ==
  IF s.level = "tables" THEN MoveTable(s, delta)
  ELSE IF s.dbs = <<>> THEN s
  ELSE [s EXCEPT !.dbIndex = Clamp(@ + delta, Len(s.dbs))]

MoveToEnd(s, last) ==
  LET visible == VisibleTables(s) IN
  IF s.level = "tables"
  THEN IF visible = {} THEN s
       ELSE [s EXCEPT !.tableIndex = IF last THEN Max(visible) ELSE Min(visible)]
  ELSE IF s.dbs = <<>> THEN s
  ELSE [s EXCEPT !.dbIndex = IF last THEN Len(s.dbs) ELSE 1]

-----------------------------------------------------------------------------
(* Selections.  The name of the database is the one under the cursor of    *)
(* the database list; the names of the tables come from the table list.    *)

ToggleDatabaseMut(s) ==
  IF s.dbs = <<>> THEN s
  ELSE IF Current(s) \in s.selDbs THEN [s EXCEPT !.selDbs = @ \ {Current(s)}]
       ELSE [s EXCEPT !.selDbs = @ \cup {Current(s)}]

ToggleDatabase(s) ==
  IF s.dbs = <<>> THEN s
  ELSE LET d == Current(s) IN
       IF d \in s.selDbs
       THEN [s EXCEPT !.selDbs = @ \ {d}, !.selTables[d] = {}]
       ELSE [s EXCEPT !.selDbs = @ \cup {d}]

ToggleTable(s) ==
  IF s.dbs = <<>> \/ s.tables = <<>> THEN s
  ELSE LET d == Current(s)
           t == s.tables[s.tableIndex]
       IN  IF t \in s.selTables[d]
           THEN [s EXCEPT !.selTables[d] = @ \ {t}]
           ELSE [s EXCEPT !.selDbs = @ \cup {d}, !.selTables[d] = @ \cup {t}]

SelectTables(s, indexes) ==
  IF s.dbs = <<>> \/ s.tables = <<>> THEN s
  ELSE LET d == Current(s) IN
       [s EXCEPT !.selDbs = @ \cup {d},
                 !.selTables[d] = @ \cup {s.tables[i] : i \in indexes}]

SelectDatabases(s, names) ==
  [s EXCEPT !.selDbs = @ \cup names,
            !.selTables = [d \in DatabaseNames |-> IF d \in names THEN {} ELSE @[d]]]

MarkedDatabases(s) == IF s.dbs = <<>> THEN {} ELSE {s.dbs[i] : i \in DBRange(s)}

SelectAll(s) ==
  IF s.level = "tables" THEN SelectTables(s, VisibleTables(s))
  ELSE SelectDatabases(s, Range(s.dbs))

SelectMarked(s) ==
  IF s.level = "tables" THEN SelectTables(s, TableRange(s))
  ELSE SelectDatabases(s, MarkedDatabases(s))

ClearTables(s) ==
  IF s.dbs = <<>> THEN s
  ELSE [s EXCEPT !.selTables[Current(s)] = {}, !.selDbs = @ \cup {Current(s)}]

ClearMarked(s) ==
  IF s.level = "tables"
  THEN IF s.dbs = <<>> \/ s.tables = <<>> THEN s
       ELSE LET d    == Current(s)
                left == s.selTables[d] \ {s.tables[i] : i \in TableRange(s)}
            IN  [s EXCEPT !.selTables[d] = left,
                          !.selDbs = IF s.selTables[d] # {} /\ left = {}
                                     THEN @ \cup {d} ELSE @]
  ELSE LET names == MarkedDatabases(s) IN
       [s EXCEPT !.selDbs = @ \ names,
                 !.selTables = [d \in DatabaseNames |-> IF d \in names THEN {} ELSE @[d]]]

ClearAll(s) == [s EXCEPT !.selDbs = {}, !.selTables = NoTables]

Marked(s) == IF s.level = "tables" THEN s.tableMark # 0 ELSE s.dbMark # 0

(* c, u and ctrl+x: the marked range, or else everything on this level.    *)
Clear(s) ==
  IF Marked(s) THEN ClearMarked(s)
  ELSE IF s.level = "tables" THEN ClearTables(s) ELSE ClearAll(s)

MarkStart(s) ==
  IF s.level = "tables"
  THEN IF s.tables = <<>> THEN s ELSE [s EXCEPT !.tableMark = s.tableIndex]
  ELSE IF s.dbs = <<>> THEN s ELSE [s EXCEPT !.dbMark = s.dbIndex]

VisualRange(s) == IF Marked(s) THEN SelectMarked(s) ELSE MarkStart(s)

Toggle(s) == IF s.level = "tables" THEN ToggleTable(s) ELSE ToggleDatabase(s)

-----------------------------------------------------------------------------
(* Keys.  While the search is open every key belongs to its text field.    *)

ScopeKey ==
  /\ ~scope.search
  /\ \/ \E op \in {Toggle(scope), SelectAll(scope), SelectMarked(scope), Clear(scope),
                   ClearAll(scope), MarkStart(scope), VisualRange(scope)} : scope' = op
     \/ \E delta \in Moves : scope' = MoveSelection(scope, delta)
     \/ \E last \in BOOLEAN : scope' = MoveToEnd(scope, last)
  /\ UNCHANGED <<listing, asked>>

(* esc and backspace on the tables; the tables and the filter stay loaded.  *)
BackToDatabases ==
  /\ ~scope.search /\ scope.level = "tables"
  /\ scope' = [scope EXCEPT !.level = "databases"]
  /\ UNCHANGED <<listing, asked>>

(* enter on a database lists its tables; the keys stay live meanwhile.     *)
OpenDatabase ==
  /\ ~scope.search /\ scope.level = "databases" /\ scope.dbs # <<>>
  /\ asked[Current(scope)] < MaxAsked
  /\ scope' = [scope EXCEPT !.loading = TRUE]
  /\ asked' = [asked EXCEPT ![Current(scope)] = @ + 1]
  /\ UNCHANGED listing

(* The workflow reaches the scope step: discovery starts if there is none. *)
EnterStep ==
  /\ ~scope.search /\ scope.dbs = <<>> /\ ~scope.loading
  /\ scope' = [scope EXCEPT !.loading = TRUE]
  /\ listing' = TRUE
  /\ UNCHANGED asked

OpenSearch ==
  /\ ~scope.search /\ scope.level = "tables"
  /\ scope' = [scope EXCEPT !.search = TRUE]
  /\ UNCHANGED <<listing, asked>>

TypeSearch ==
  /\ scope.search
  /\ \E q \in Queries : scope' = EnsureTableVisible([scope EXCEPT !.filter = q])
  /\ UNCHANGED <<listing, asked>>

ClearSearch ==
  /\ scope.search
  /\ scope' = EnsureTableVisible([scope EXCEPT !.filter = TableNames, !.tableMark = 0])
  /\ UNCHANGED <<listing, asked>>

CloseSearch ==
  /\ scope.search
  /\ scope' = [scope EXCEPT !.search = FALSE]
  /\ UNCHANGED <<listing, asked>>

-----------------------------------------------------------------------------
(* Answers.  scopeTablesMsg names its database but the handler does not    *)
(* look at it: the tables are shown under whatever the cursor is on.       *)

DatabasesListed ==
  /\ listing
  /\ listing' = FALSE
  /\ \/ scope' = [scope EXCEPT !.loading = FALSE]
     \/ scope' = [scope EXCEPT !.loading = FALSE, !.dbs = Granted,
                               !.dbIndex = IF Granted = <<>> THEN 0 ELSE 1, !.dbMark = 0]
  /\ UNCHANGED asked

ShowTables(d) ==
  [scope EXCEPT !.loading = FALSE, !.tables = TablesOf[d], !.level = "tables",
                !.tableIndex = IF TablesOf[d] = <<>> THEN 0 ELSE 1, !.tableMark = 0,
                !.filter = TableNames, !.search = FALSE]

TablesListed ==
  /\ \E d \in DatabaseNames :
       /\ asked[d] > 0
       /\ asked' = [asked EXCEPT ![d] = @ - 1]
       /\ scope' \in {[scope EXCEPT !.loading = FALSE], ShowTables(d)}
  /\ UNCHANGED listing

(* reloadConfigMsg replaces the selections by those of .env.               *)
ScopeReloaded ==
  /\ \E env \in EnvScopes : scope' = Loaded(scope, env)
  /\ UNCHANGED <<listing, asked>>

ScopeNext ==
  \/ ScopeKey
  \/ BackToDatabases
  \/ OpenDatabase
  \/ EnterStep
  \/ OpenSearch
  \/ TypeSearch
  \/ ClearSearch
  \/ CloseSearch
  \/ DatabasesListed
  \/ TablesListed
  \/ ScopeReloaded

ScopeSpec == ScopeInit /\ [][ScopeNext]_scopeVars

-----------------------------------------------------------------------------
(* applyScopeToConfig: what a start or a save takes from the page.         *)
AppliedScope(s) ==
  IF s.selDbs = {} THEN [dbs |-> {}, tables |-> NoTables]
  ELSE [dbs |-> s.selDbs, tables |-> s.selTables]

(* A backup restricted to some tables of a database also lists that        *)
(* database: whatever sequence of toggles, ranges, clears and reloads      *)
(* made the selection, LogicalTables never names a database that           *)
(* LogicalDatabases leaves out.                                            *)
TablesImplyDatabase ==
  \A d \in DatabaseNames : AppliedScope(scope).tables[d] # {} => d \in AppliedScope(scope).dbs

(* The cursor of the tables stays on a table that the search shows, so     *)
(* that scopeTableRange never slices with the position -1, and the cursor  *)
(* of the databases stays inside the list: no key or late answer can make  *)
(* the page index out of its lists.                                        *)
CursorShown ==
  /\ scope.dbs # <<>> => scope.dbIndex \in DOMAIN scope.dbs
  /\ VisibleTables(scope) # {} => scope.tableIndex \in VisibleTables(scope)
  /\ scope.tables # <<>> => scope.tableIndex \in DOMAIN scope.tables
=============================================================================
