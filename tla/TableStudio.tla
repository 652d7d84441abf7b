----------------------------- MODULE TableStudio -----------------------------
(***************************************************************************)
(* The table studio of one database (src/web/app/databases/[name]/page.tsx)*)
(* and the explorer of the agent behind it.  The page keeps a query (table,*)
(* page, size, sort, filters), a grid that answers some query, the schema  *)
(* of some table and the rows the user ticked; React effects send a rows   *)
(* request whenever the query or the view changes.  Requests overlap and   *)
(* are answered in any order, and a handler that resumes after an await    *)
(* still sees the query of its click.                                      *)
(*                                                                         *)
(* A row is its key.  Key values of different tables and columns coincide  *)
(* (serial numbers do), which is the worst case for a write that names the *)
(* wrong table.  The backups tab (see BackupsView), the session, the demo   *)
(* mode and the wording are left out.                                      *)
(***************************************************************************)
EXTENDS Integers, FiniteSets, Functions

CONSTANTS
  Tables,        \* the tables the database may hold, numbers in the order of the listing
  Keys,          \* the rows, numbers
  Columns,       \* the column names
  ColumnsOf,     \* the columns of each table
  PkOf,          \* the primary key column of each table
  DefaultPk,     \* what the page takes for the key without a schema ("id")
  Kept,          \* the rows a filter on a column keeps
  Value,         \* what each table holds in a column of a row
  PageSizes,     \* the sizes the footer offers
  DefaultSize,   \* the size the page starts with
  AgentLimit,    \* the largest page the agent serves (200)
  AgentDefault,  \* what it serves instead of a larger one (50)
  MaxMoves,      \* bound: how many things the user does
  MaxOpen,       \* bound: the user waits while more requests than this are under way
  Undaunted,     \* bound: the user goes on after something went out of the ordinary
  StartRows,     \* the rows of each table at the start
  None

StudioConstants ==
  /\ Tables \subseteq Nat /\ Keys \subseteq Nat /\ IsFiniteSet(Keys)
  /\ \A ts \in SUBSET Tables : ts # {} => \E t \in ts : \A u \in ts : t <= u
  /\ ColumnsOf \in [Tables -> SUBSET Columns]
  /\ PkOf \in [Tables -> Columns] /\ DefaultPk \in Columns
  /\ Kept \in [Columns -> SUBSET Keys] /\ Value \in [Tables -> [Columns -> [Keys -> Nat]]]
  /\ PageSizes \subseteq Nat \ {0} /\ DefaultSize \in PageSizes
  /\ AgentLimit \in Nat \ {0} /\ AgentDefault \in Nat \ {0}
  /\ MaxMoves \in Nat /\ MaxOpen \in Nat /\ Undaunted \in BOOLEAN
  /\ StartRows \in [Tables -> SUBSET Keys]
  /\ None \notin Nat /\ None \notin Columns

VARIABLES
  existing,     \* agent: the tables there are
  stored,       \* agent: their rows
  listed,       \* page: the tables of the sidebar
  query,        \* page: what the grid should show
  view,         \* page: the explorer, with the data grid or the schema, or the SQL console
  schemaOf,     \* page: whose columns it knows
  grid,         \* page: the rows it shows and the query they answer
  ticked,       \* page: the selected rows
  editing,      \* page: the cell being edited
  inspecting,   \* page: the cell in the inspector
  loadingRows,  \* page: the spinner of the grid
  sqlRunning,   \* page: the console waits
  calls,        \* requests under way
  moves,        \* how many things the user did
  trouble       \* history: what went out of the ordinary

vars == <<existing, stored, listed, query, view, schemaOf, grid, ticked, editing,
          inspecting, loadingRows, sqlRunning, calls, moves, trouble>>

Sorts   == [col : Columns \union {None}, desc : BOOLEAN]
Queries == [table : Tables \union {None}, page : Nat, size : PageSizes,
            sort : Sorts, filters : SUBSET Columns]
Views   == [tab : {"explorer", "sql"}, sub : {"data", "schema"}]
DataGrid == [tab |-> "explorer", sub |-> "data"]
Kinds   == {"tables", "schema", "rows", "insert", "delete", "update", "create", "sql"}

\* A row as the page names it: the value of the key column `col` in a row of table `from`.
Idents  == [key : Keys \union {None}, col : Columns, from : Tables \union {None}]
Cells   == Idents

\* A request: who sent it (the closure: query), what it is about, how it stands.
Call == [kind : Kinds, n : Nat, query : Queries, target : Tables \union {None},
         pk : Columns, rows : SUBSET Idents, state : {"sent", "served", "refused"},
         got : SUBSET Nat, total : Nat, late : BOOLEAN]

----------------------------------------------------------------------------
(* What the agent does with a request.                                     *)

Limit(size) == IF size > AgentLimit THEN AgentDefault ELSE size

\* Mutant of Offset: pages are counted from 0.
OffsetPast(q) == q.page * Limit(q.size)

Offset(q) == (q.page - 1) * Limit(q.size)

\* ORDER BY the sort column; without one, no row precedes another.
Precedes(q, j, k) ==
  LET value == Value[q.table][q.sort.col]
  IN  q.sort.col # None /\ IF q.sort.desc THEN value[k] < value[j] ELSE value[j] < value[k]

Matching(q, rows) == {k \in rows : \A c \in q.filters : k \in Kept[c]}

\* The orders in which postgres may return the rows m; equal rows stand anyhow.
Orders(q, m) == {rank \in Bijection(m, 0..Cardinality(m) - 1) :
                   \A j, k \in m : Precedes(q, j, k) => rank[j] < rank[k]}

\* The pages of the matching rows that the agent may return: LIMIT and OFFSET.
Pages(q, rows) ==
  LET m == Matching(q, rows)
  IN  {{k \in m : Offset(q) <= rank[k] /\ rank[k] < Offset(q) + Limit(q.size)} : rank \in Orders(q, m)}

Method(kind) == CASE kind \in {"tables", "schema"} -> "GET"
                  [] kind = "update"               -> "PATCH"
                  [] OTHER                         -> "POST"

ProxyMethods == {"GET", "POST", "PUT", "DELETE"}

\* The proxy has no handler for the method, or the agent or postgres says no.
Rejects(c) ==
  \/ Method(c.kind) \notin ProxyMethods
  \/ c.kind \in {"rows", "insert", "delete", "update"} /\ c.target \notin existing
  \/ c.kind = "rows" /\ c.target \in existing
       /\ ~(c.query.filters \union ({c.query.sort.col} \ {None}) \subseteq ColumnsOf[c.target])
  \/ c.kind = "delete" /\ c.target \in existing /\ c.pk \notin ColumnsOf[c.target]
  \/ c.kind = "create" /\ c.target \in existing

\* The rows and tables after the request, as <<existing, stored>>.
Effects(c) ==
  LET t == c.target
      put(s) == <<existing, [stored EXCEPT ![t] = s]>>
  IN  CASE c.kind = "delete" -> {put(stored[t] \ {r.key : r \in c.rows})}
        [] c.kind = "insert" -> {put(stored[t] \union {k}) : k \in Keys \ stored[t]}
        [] c.kind = "create" -> {<<existing \union {t}, [stored EXCEPT ![t] = {}]>>}
        [] c.kind = "sql"    -> {<<existing, stored>>}
             \union {<<existing, [stored EXCEPT ![u] = {}]>> : u \in existing}
             \union {<<existing \ {u}, stored>> : u \in existing}
        [] OTHER             -> {<<existing, stored>>}

Answers(c) == CASE c.kind = "tables" -> {existing}
                [] c.kind = "rows"   -> Pages(c.query, stored[c.target])
                [] OTHER             -> {{}}

Served(c, got) ==
  [c EXCEPT !.state = "served", !.got = got,
            !.total = IF c.kind = "rows" THEN Cardinality(Matching(c.query, stored[c.target])) ELSE 0]

----------------------------------------------------------------------------
(* What the page does.                                                     *)

Of(cs, kind) == {c \in cs : c.kind = kind}
Numbers(cs, kind) == {c.n : c \in Of(cs, kind)}
Last(cs, kind) == CHOOSE i \in Numbers(cs, kind) \union {0} : \A j \in Numbers(cs, kind) : j <= i

Pk == IF schemaOf = None THEN DefaultPk ELSE PkOf[schemaOf]

NewCall(cs, kind, q, target, rows) ==
  [kind |-> kind, n |-> Last(cs, kind) + 1, query |-> q, target |-> target, pk |-> Pk,
   rows |-> rows, state |-> "sent", got |-> {}, total |-> 0, late |-> FALSE]

Send(cs, kind, q, rows) == cs \union {NewCall(cs, kind, q, q.table, rows)}

\* loadRowsData, loadSchema and loadTablesList with the closure of query q.
LoadRows(cs, q)   == IF q.table = None THEN cs ELSE Send(cs, "rows", q, {})
LoadSchema(cs, q) == IF q.table = None THEN cs ELSE Send(cs, "schema", q, {})
LoadTables(cs, q) == Send(cs, "tables", q, {})

\* The requests of another table than the one selected: their answers will be shown under it.
Mixed(cs, q) == IF \E c \in Of(cs, "rows") \union Of(cs, "schema") : c.target # q.table
                THEN {"mixed"} ELSE {}

\* Mutant of TicksAfter: the ticks outlive the table.
TicksForGood(moved) == ticked

TicksAfter(moved) == IF moved THEN {} ELSE ticked

(* A handler has set the query to q and the view to v, and sent cs: React  *)
(* renders and runs the effects.  A new table loads its schema, goes to    *)
(* page 1 and clears the ticks; the rows effect runs before the page is    *)
(* reset and, when that changed the page, once more.                       *)
Render(cs, q, v, odd) ==
  LET moved  == q.table # query.table /\ q.table # None
      first  == IF moved THEN [q EXCEPT !.page = 1] ELSE q
      cs1    == IF moved THEN LoadSchema(cs, q) ELSE cs
      open   == IF moved /\ inspecting # None THEN {"stale"} ELSE {}
      loads  == v = DataGrid /\ q.table # None /\ <<q, v>> # <<query, view>>
      cs2    == IF loads THEN LoadRows(cs1, q) ELSE cs1
      cs3    == IF loads /\ first # q THEN LoadRows(cs2, first) ELSE cs2
  IN  /\ query' = first
      /\ view' = v
      /\ calls' = cs3
      /\ trouble' = trouble \union odd \union open \union Mixed(cs3, first)
      /\ ticked' = TicksAfter(moved)
      /\ editing' = IF moved THEN None ELSE editing
      /\ loadingRows' = (loadingRows \/ Of(cs3, "rows") \ Of(calls, "rows") # {})

Agent == <<existing, stored>>

\* The user acts: a bounded number of times, with room for the requests that follow.
Move == /\ moves < MaxMoves
        /\ Cardinality(calls) <= MaxOpen
        /\ Undaunted \/ trouble = {}
        /\ moves' = moves + 1
        /\ UNCHANGED <<Agent, listed>>

Ask(q, v) == /\ Move
             /\ Render(calls, q, v, {})
             /\ UNCHANGED <<schemaOf, grid, inspecting, sqlRunning>>

\* A click on a table of the sidebar, which leaves the SQL console.
SelectTable(t) == /\ inspecting = None
                  /\ t \in listed
                  /\ Ask([query EXCEPT !.table = t], [view EXCEPT !.tab = "explorer"])

TotalPages == LET p == (grid.total + query.size - 1) \div query.size
              IN  IF p = 0 THEN 1 ELSE p

InGrid == view = DataGrid /\ inspecting = None /\ query.table # None

\* Mutant of Neighbours: nothing stops at the first page.
NeighboursDown == {p \in {query.page - 1, query.page + 1} : p < query.page \/ p <= TotalPages}

Neighbours == {p \in {query.page - 1, query.page + 1} : 1 <= p /\ (p < query.page \/ p <= TotalPages)}

TurnPage == InGrid /\ \E p \in Neighbours : Ask([query EXCEPT !.page = p], view)

Resize(s) == InGrid /\ Ask([query EXCEPT !.size = s, !.page = 1], view)

NextSort(c) == IF query.sort.col # c THEN [col |-> c, desc |-> FALSE]
               ELSE IF ~query.sort.desc THEN [col |-> c, desc |-> TRUE]
               ELSE [col |-> None, desc |-> FALSE]

SortBy(c) == /\ InGrid
             /\ schemaOf # None /\ c \in ColumnsOf[schemaOf]
             /\ Ask([query EXCEPT !.sort = NextSort(c)], view)

FilterBy(c) == /\ InGrid
               /\ schemaOf # None /\ c \in ColumnsOf[schemaOf]
               /\ Ask([query EXCEPT !.filters = @ \union {c}], view)

DropFilters(cs) == /\ InGrid /\ cs # {} /\ cs \subseteq query.filters
                   /\ Ask([query EXCEPT !.filters = @ \ cs], view)

\* The tabs, and the switch between data and schema of a selected table.
ChangeView(v) ==
  /\ inspecting = None
  /\ \/ v = [view EXCEPT !.tab = v.tab]
     \/ v = [view EXCEPT !.sub = v.sub] /\ view.tab = "explorer" /\ query.table # None
  /\ v # view
  /\ Ask(query, v)

\* Enter in the row search: page 1, and a load with the page that was.
SearchRows == /\ InGrid
              /\ Move
              /\ Render(LoadRows(calls, query), [query EXCEPT !.page = 1], view, {})
              /\ UNCHANGED <<schemaOf, grid, inspecting, sqlRunning>>

Reload == /\ view.tab = "explorer" /\ inspecting = None /\ query.table # None
          /\ Move
          /\ Render(LoadTables(LoadSchema(LoadRows(calls, query), query), query), query, view, {})
          /\ UNCHANGED <<schemaOf, grid, inspecting, sqlRunning>>

----------------------------------------------------------------------------
(* Ticks, edits and the writes they lead to.                               *)

Visible == InGrid /\ ~loadingRows

\* What the page takes for the key of row k of the grid.
Ident(k) ==
  [key  |-> IF grid.of.table # None /\ Pk \in ColumnsOf[grid.of.table] THEN k ELSE None,
   col  |-> Pk, from |-> grid.of.table]

\* A row was named by the columns of another table.
Hasty == IF schemaOf = query.table THEN {} ELSE {"hasty"}

Tick(k) ==
  LET same == {r \in ticked : r.key = Ident(k).key}
  IN  /\ Visible /\ k \in grid.keys
      /\ Move
      /\ ticked' = IF same # {} THEN ticked \ same ELSE ticked \union {Ident(k)}
      /\ trouble' = trouble \union Hasty
      /\ UNCHANGED <<query, view, schemaOf, grid, editing, inspecting, loadingRows, sqlRunning, calls>>

TickAll ==
  /\ Visible
  /\ Move
  /\ ticked' = IF Cardinality(ticked) = Cardinality(grid.keys) THEN {} ELSE {Ident(k) : k \in grid.keys}
  /\ trouble' = trouble \union Hasty
  /\ UNCHANGED <<query, view, schemaOf, grid, editing, inspecting, loadingRows, sqlRunning, calls>>

Write(kind, rows) ==
  /\ Move
  /\ calls' = Send(calls, kind, query, rows)
  /\ UNCHANGED <<query, view, schemaOf, grid, ticked, editing, inspecting, loadingRows, sqlRunning, trouble>>

DeleteSelected == InGrid /\ ticked # {} /\ Write("delete", ticked)

\* The drawer sends one row at a time.
InsertRow == InGrid /\ Of(calls, "insert") = {} /\ Write("insert", {})

EditCell(k) ==
  /\ Visible /\ k \in grid.keys /\ schemaOf # None
  /\ Move
  /\ \/ editing' = Ident(k) /\ UNCHANGED inspecting
     \/ inspecting' = Ident(k) /\ UNCHANGED editing
  /\ trouble' = trouble \union Hasty
  /\ UNCHANGED <<query, view, schemaOf, grid, ticked, loadingRows, sqlRunning, calls>>

CloseInspector ==
  /\ inspecting # None
  /\ Move
  /\ editing' \in {editing, inspecting}
  /\ inspecting' = None
  /\ UNCHANGED <<query, view, schemaOf, grid, ticked, loadingRows, sqlRunning, calls, trouble>>

CancelEdit ==
  /\ Visible /\ editing # None
  /\ Move
  /\ editing' = None
  /\ UNCHANGED <<query, view, schemaOf, grid, ticked, inspecting, loadingRows, sqlRunning, calls, trouble>>

SaveCell == Visible /\ editing # None /\ Write("update", {editing})

CreateTable(t) ==
  /\ inspecting = None /\ Of(calls, "create") = {}
  /\ Move
  /\ calls' = calls \union {NewCall(calls, "create", query, t, {})}
  /\ UNCHANGED <<query, view, schemaOf, grid, ticked, editing, inspecting, loadingRows, sqlRunning, trouble>>

RunSql ==
  /\ view.tab = "sql" /\ ~sqlRunning
  /\ Move
  /\ sqlRunning' = TRUE
  /\ calls' = Send(calls, "sql", query, {})
  /\ UNCHANGED <<query, view, schemaOf, grid, ticked, editing, inspecting, loadingRows, trouble>>

----------------------------------------------------------------------------
(* Answers.                                                                *)

Serve(c) ==
  /\ c.state = "sent" /\ c.kind # "schema"
  /\ IF Rejects(c)
     THEN /\ calls' = (calls \ {c}) \union {[c EXCEPT !.state = "refused"]}
          /\ UNCHANGED Agent
     ELSE /\ \E got \in Answers(c) : calls' = (calls \ {c}) \union {Served(c, got)}
          /\ \E e \in Effects(c) : existing' = e[1] /\ stored' = e[2]
  /\ UNCHANGED <<listed, query, view, schemaOf, grid, ticked, editing, inspecting,
                 loadingRows, sqlRunning, moves, trouble>>

\* The answer of c is in: older requests of its kind are late from now on.
Rest(c) == {IF d.kind = c.kind /\ d.n < c.n THEN [d EXCEPT !.late = TRUE] ELSE d : d \in calls \ {c}}

Odd(c) == IF c.late THEN {"late"} ELSE {}

GotRows(c) ==
  /\ c.kind = "rows" /\ c.state = "served"
  /\ grid' = [of |-> c.query, keys |-> c.got, total |-> c.total]
  /\ loadingRows' = FALSE
  /\ calls' = Rest(c)
  /\ trouble' = trouble \union Odd(c)
  /\ UNCHANGED <<Agent, listed, query, view, schemaOf, ticked, editing, inspecting, sqlRunning, moves>>

\* The columns of a table do not change while it exists, so they are read with the answer.
GotSchema(c) ==
  /\ c.kind = "schema"
  /\ schemaOf' = IF c.target \in existing THEN c.target ELSE None
  /\ calls' = Rest(c)
  /\ trouble' = trouble \union Odd(c) \union (IF c.target \in existing THEN {} ELSE {"gone"})
  /\ UNCHANGED <<Agent, listed, query, view, grid, ticked, editing, inspecting, loadingRows, sqlRunning, moves>>

First(names) == CHOOSE t \in names : \A u \in names : t <= u

\* loadTablesList resumes: it compares the list with the table selected when it was called.
GotTables(c) ==
  LET t == IF c.got = {} THEN None
           ELSE IF c.query.table \notin c.got THEN First(c.got) ELSE query.table
  IN  /\ c.kind = "tables" /\ c.state = "served"
      /\ listed' = c.got
      /\ grid' = IF t = None THEN [grid EXCEPT !.keys = {}] ELSE grid
      /\ schemaOf' = IF t = None THEN None ELSE schemaOf
      /\ Render(Rest(c), [query EXCEPT !.table = t], view, Odd(c))
      /\ UNCHANGED <<Agent, inspecting, sqlRunning, moves>>

\* Mutant of Reloaded: the rows are not read again.
ReloadedTables(cs, q) == LoadTables(cs, q)

Reloaded(cs, q) == LoadTables(LoadRows(cs, q), q)

\* The deleted or inserted rows are reloaded with the query of the click.
GotWrite(c) ==
  LET cs == Reloaded(Rest(c), c.query)
      stale == IF c.query # query THEN {"stale"} ELSE {}
  IN  /\ c.kind \in {"delete", "insert"} /\ c.state = "served"
      /\ calls' = cs
      /\ ticked' = IF c.kind = "delete" THEN {} ELSE ticked
      /\ loadingRows' = (loadingRows \/ Of(cs, "rows") \ Of(calls, "rows") # {})
      /\ trouble' = trouble \union stale \union Odd(c) \union Mixed(cs, query)
      /\ UNCHANGED <<Agent, listed, query, view, schemaOf, grid, editing, inspecting, sqlRunning, moves>>

GotTable(c) ==
  /\ c.kind = "create" /\ c.state = "served"
  /\ Render(LoadTables(Rest(c), c.query), [query EXCEPT !.table = c.target], view, Odd(c))
  /\ UNCHANGED <<Agent, listed, schemaOf, grid, inspecting, sqlRunning, moves>>

\* The console shows its result and reloads nothing.
GotSql(c) ==
  /\ c.kind = "sql" /\ c.state = "served"
  /\ sqlRunning' = FALSE
  /\ calls' = Rest(c)
  /\ trouble' = trouble \union (IF view = DataGrid THEN {"stale"} ELSE {})
  /\ UNCHANGED <<Agent, listed, query, view, schemaOf, grid, ticked, editing, inspecting, loadingRows, moves>>

\* Mutant of StillLoading: only an answer with rows stops the spinner.
LoadingForGood(c) == loadingRows

StillLoading(c) == loadingRows /\ c.kind # "rows"

\* The request was refused, or it timed out or its answer was lost (bound: once).  An
\* update has no other end: the proxy turns it away.
Fails(c) ==
  /\ c.state = "refused" \/ "failed" \notin trouble
  /\ calls' = calls \ {c}
  /\ loadingRows' = StillLoading(c)
  /\ schemaOf' = IF c.kind = "schema" THEN None ELSE schemaOf
  /\ editing' = IF c.kind = "update" THEN None ELSE editing
  /\ sqlRunning' = (sqlRunning /\ c.kind # "sql")
  /\ trouble' = trouble \union {"failed"}
  /\ UNCHANGED <<Agent, listed, query, view, grid, ticked, inspecting, moves>>

Answer == \E c \in calls : \/ GotRows(c) \/ GotSchema(c) \/ GotTables(c) \/ GotWrite(c)
                           \/ GotTable(c) \/ GotSql(c) \/ Fails(c)

User == \/ \E t \in Tables : SelectTable(t) \/ CreateTable(t)
        \/ \E s \in PageSizes : Resize(s)
        \/ \E c \in Columns : SortBy(c) \/ FilterBy(c)
        \/ \E cs \in SUBSET Columns : DropFilters(cs)
        \/ \E v \in Views : ChangeView(v)
        \/ \E k \in Keys : Tick(k) \/ EditCell(k)
        \/ TurnPage \/ SearchRows \/ Reload \/ TickAll \/ DeleteSelected \/ InsertRow
        \/ CloseInspector \/ CancelEdit \/ SaveCell \/ RunSql

NoSort == [col |-> None, desc |-> FALSE]

Blank == [table |-> None, page |-> 1, size |-> DefaultSize, sort |-> NoSort, filters |-> {}]

\* The page is mounted: its first effect asks for the tables.
Init ==
  /\ existing \in {Tables, {}} /\ stored = StartRows
  /\ listed = {} /\ query = Blank /\ view = DataGrid /\ schemaOf = None
  /\ grid = [of |-> Blank, keys |-> {}, total |-> 0]
  /\ ticked = {} /\ editing = None /\ inspecting = None
  /\ loadingRows = FALSE /\ sqlRunning = FALSE
  /\ calls = LoadTables({}, Blank)
  /\ moves = 0 /\ trouble = {}

Next == User \/ Answer \/ \E c \in calls : Serve(c)

Spec == Init /\ [][Next]_vars

----------------------------------------------------------------------------
(* Properties.                                                             *)

TypeOK ==
  /\ existing \subseteq Tables /\ stored \in [Tables -> SUBSET Keys]
  /\ listed \subseteq Tables /\ query \in Queries /\ query.page > 0 /\ view \in Views
  /\ schemaOf \in Tables \union {None}
  /\ grid \in [of : Queries, keys : SUBSET Keys, total : Nat]
  /\ ticked \subseteq Idents /\ {editing, inspecting} \subseteq Idents \union {None}
  /\ loadingRows \in BOOLEAN /\ sqlRunning \in BOOLEAN
  /\ calls \subseteq Call
  /\ moves \in Nat /\ trouble \subseteq {"mixed", "late", "stale", "hasty", "failed", "gone"}

\* The spinner of the grid and the lock of the SQL console always have a request
\* under way that will release them.
NoStuckSpinner ==
  /\ loadingRows => Of(calls, "rows") # {}
  /\ sqlRunning  => Of(calls, "sql") # {}

\* Whatever the studio deletes or saves, it names by rows it showed of the table
\* it writes to and by that table's key -- unless loads of two tables were under
\* way at once, a request failed, was overtaken or reloaded an old query, a table was
\* gone or changed under the open inspector, or the user named a row before the
\* columns of its table were known.
WritesHitWhatWasShown ==
  trouble = {} =>
    \A c \in calls : c.kind \in {"delete", "update"} =>
      \A r \in c.rows : r.from = c.target /\ r.col = PkOf[c.target] /\ c.pk = r.col

\* Once nothing is under way, the grid holds a page of what the agent stores for the query
\* and the columns are those of the selected table -- with the same exceptions.
SettledGrid ==
  (trouble = {} /\ calls = {} /\ view = DataGrid /\ query.table # None) =>
    /\ grid.of = query /\ schemaOf = query.table
    /\ grid.keys \in Pages(query, stored[query.table])

\* The sort column tells the rows m apart.
Sorted(q, m) == \A j, k \in m : j # k => Precedes(q, j, k) \/ Precedes(q, k, j)

\* Paging through a table shows every row the filters keep on one of its pages and on no
\* other, as long as the page size is one the agent serves and the sort column tells the
\* rows apart: without ORDER BY each page may come in another order.
EveryRowReachable ==
  LET m == Matching(query, stored[query.table])
      n == (Cardinality(m) + query.size - 1) \div query.size
      on(p) == Pages([query EXCEPT !.page = p], stored[query.table])
  IN  (query.table # None /\ query.size <= AgentLimit /\ Sorted(query, m)) =>
        /\ \A k \in m : \E p \in 1..n : \A ks \in on(p) : k \in ks
        /\ \A p, r \in 1..n : p # r => \A ks \in on(p), ls \in on(r) : ks \cap ls = {}

\* Violated: an inline edit reaches the agent (the comment at explorer.go:509 says
\* that UpdateRow handles them), instead of being turned away by the proxy.
EditsReachTheAgent == \A c \in Of(calls, "update") : c.target \in existing => c.state # "refused"
=============================================================================
