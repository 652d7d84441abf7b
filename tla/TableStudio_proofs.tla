-------------------------- MODULE TableStudio_proofs --------------------------
(***************************************************************************)
(* Theorems about TableStudio for any tables, columns, page sizes and      *)
(* number of requests.                                                     *)
(***************************************************************************)
EXTENDS TableStudio, FiniteSetTheorems, TLAPS

----------------------------------------------------------------------------
(* Numbers of requests *)

\* Every set of these numbers has a largest one.
Topped(ns) == \A ms \in SUBSET ns : ms # {} => \E i \in ms : \A j \in ms : j <= i

LEMMA TopOfOneMore ==
  ASSUME NEW ns \in SUBSET Nat, Topped(ns), NEW m \in Nat
  PROVE  Topped(ns \union {m})
<1> SUFFICES ASSUME NEW ms \in SUBSET (ns \union {m}), ms # {}
             PROVE  \E i \in ms : \A j \in ms : j <= i
  BY DEF Topped
<1>1. CASE ms \subseteq ns
  BY <1>1 DEF Topped
<1>2. CASE ~(ms \subseteq ns) /\ ms \ {m} = {}
  <2>1. \A j \in ms : j = m
    BY <1>2
  <2>2. m <= m
    OBVIOUS
  <2> QED BY <2>1, <2>2
<1>3. CASE ~(ms \subseteq ns) /\ ms \ {m} # {}
  <2>1. m \in ms
    BY <1>3
  <2>2. ms \ {m} \in SUBSET ns
    OBVIOUS
  <2>3. PICK i \in ms \ {m} : \A j \in ms \ {m} : j <= i
    BY <1>3, <2>2 DEF Topped
  <2>4. i \in Nat /\ \A j \in ms : j \in Nat
    BY <2>2
  <2>5. CASE i <= m
    <3>1. \A j \in ms : j <= m
      BY <2>3, <2>4, <2>5
    <3> QED BY <2>1, <3>1
  <2>6. CASE m <= i
    <3>1. \A j \in ms : j <= i
      BY <2>3, <2>4, <2>6
    <3> QED BY <2>3, <3>1
  <2> QED BY <2>4, <2>5, <2>6
<1> QED BY <1>1, <1>2, <1>3

LEMMA TopOfFewer ==
  ASSUME NEW ns, Topped(ns), NEW ms \in SUBSET ns
  PROVE  Topped(ms)
BY DEF Topped

\* The writes to a table, and the reads of it, name the table of their query; the answers
\* are tables, or rows.
WellSent(c) ==
  /\ c.kind \in {"rows", "schema", "insert", "delete", "update"} =>
       c.target = c.query.table /\ c.target \in Tables
  /\ c.kind = "create" => c.target \in Tables
  /\ c.kind = "tables" => c.got \subseteq Tables
  /\ c.kind = "rows" => c.got \subseteq Keys

Good(cs) == /\ cs \subseteq Call
            /\ Topped({c.n : c \in cs})
            /\ \A c \in cs : WellSent(c)

\* The number of a new request is larger than those of its kind.
LEMMA LastType ==
  ASSUME NEW cs, Good(cs), NEW kind
  PROVE  /\ Last(cs, kind) \in Nat
         /\ \A c \in cs : c.kind = kind => c.n <= Last(cs, kind)
<1> DEFINE ns == Numbers(cs, kind)
<1>1. /\ ns \subseteq Nat /\ ns \subseteq {c.n : c \in cs}
      /\ \A c \in cs : c.kind = kind => c.n \in ns
  BY DEF Numbers, Of, Good, Call
<1> HIDE DEF ns
<1>2. \E i \in ns \union {0} : \A j \in ns : j <= i
  <2>1. CASE ns = {}
    BY <2>1
  <2>2. CASE ns # {}
    BY <1>1, <2>2 DEF Good, Topped
  <2> QED BY <2>1, <2>2
<1>3. Last(cs, kind) = CHOOSE i \in ns \union {0} : \A j \in ns : j <= i
  BY DEF Last, ns
<1>4. Last(cs, kind) \in ns \union {0} /\ \A j \in ns : j <= Last(cs, kind)
  BY <1>2, <1>3
<1>5. Last(cs, kind) \in Nat
  <2>1. ns \subseteq Nat
    BY <1>1
  <2>2. ns \union {0} \subseteq Nat
    BY <2>1
  <2> QED BY <1>4, <2>2
<1>6. \A c \in cs : c.kind = kind => c.n <= Last(cs, kind)
  BY <1>1, <1>4
<1> QED BY <1>5, <1>6

LEMMA PkType ==
  ASSUME StudioConstants, schemaOf \in Tables \union {None}
  PROVE  Pk \in Columns
BY DEF Pk, StudioConstants

LEMMA NewCallType ==
  ASSUME StudioConstants, schemaOf \in Tables \union {None}, NEW cs, Good(cs),
         NEW kind \in Kinds, NEW q \in Queries, NEW target \in Tables \union {None},
         NEW rows \in SUBSET Idents
  PROVE  LET d == NewCall(cs, kind, q, target, rows)
         IN  d \in Call /\ d \notin cs
<1> DEFINE d == NewCall(cs, kind, q, target, rows)
           l == Last(cs, kind)
<1>1. l \in Nat /\ \A c \in cs : c.kind = kind => c.n <= l
  BY LastType
<1>2. d.n = l + 1 /\ d.kind = kind
  BY DEF NewCall
<1>3. d \notin cs
  <2> HIDE DEF d, l
  <2> SUFFICES ASSUME d \in cs PROVE FALSE
    OBVIOUS
  <2>1. l + 1 <= l
    BY <1>1, <1>2
  <2> QED BY <1>1, <2>1
<1>4. l + 1 \in Nat
  BY <1>1
<1>5. d \in Call
  <2>1. Pk \in Columns
    BY PkType
  <2> HIDE DEF l
  <2> QED BY <1>4, <2>1 DEF NewCall, Call, l
<1> QED BY <1>3, <1>5

LEMMA OneMoreGood ==
  ASSUME NEW cs, Good(cs), NEW d \in Call, WellSent(d)
  PROVE  Good(cs \union {d})
<1> DEFINE ns == {c.n : c \in cs}
<1>1. ns \in SUBSET Nat /\ Topped(ns) /\ d.n \in Nat
  BY DEF Good, Call
<1>2. {c.n : c \in cs \union {d}} = ns \union {d.n}
  OBVIOUS
<1>3. Topped(ns \union {d.n})
  BY <1>1, TopOfOneMore
<1> QED BY <1>2, <1>3 DEF Good

LEMMA SendGood ==
  ASSUME StudioConstants, schemaOf \in Tables \union {None}, NEW cs, Good(cs),
         NEW kind \in Kinds, NEW q \in Queries, NEW rows \in SUBSET Idents,
         kind \in {"rows", "schema", "insert", "delete", "update"} => q.table \in Tables,
         kind # "create"
  PROVE  Good(Send(cs, kind, q, rows))
<1> DEFINE t == q.table
           d == NewCall(cs, kind, q, t, rows)
<1>1. t \in Tables \union {None}
  BY DEF Queries
<1> HIDE DEF t
<1>2. d \in Call
  BY <1>1, NewCallType
<1>3. d.kind = kind /\ d.query = q /\ d.target = t /\ d.got = {}
  BY DEF NewCall
<1> HIDE DEF d
<1>4. WellSent(d)
  BY <1>3 DEF WellSent, t
<1>5. Good(cs \union {d})
  BY <1>2, <1>4, OneMoreGood
<1> QED BY <1>5 DEF Send, d, t

LEMMA LoadGood ==
  ASSUME StudioConstants, schemaOf \in Tables \union {None}, NEW cs, Good(cs), NEW q \in Queries
  PROVE  Good(LoadRows(cs, q)) /\ Good(LoadSchema(cs, q)) /\ Good(LoadTables(cs, q))
<1>1. {} \in SUBSET Idents /\ {"rows", "schema", "tables"} \subseteq Kinds
  BY DEF Kinds
<1>2. q.table # None => q.table \in Tables
  BY DEF Queries
<1>3. Good(LoadRows(cs, q))
  BY <1>1, <1>2, SendGood DEF LoadRows
<1>4. Good(LoadSchema(cs, q))
  BY <1>1, <1>2, SendGood DEF LoadSchema
<1>5. Good(LoadTables(cs, q))
  BY <1>1, SendGood DEF LoadTables
<1> QED BY <1>3, <1>4, <1>5

LEMMA FewerGood ==
  ASSUME NEW cs, Good(cs), NEW ds \in SUBSET cs
  PROVE  Good(ds)
<1>1. {c.n : c \in ds} \in SUBSET {c.n : c \in cs}
  OBVIOUS
<1> QED BY <1>1, TopOfFewer DEF Good

\* The answer of c makes older requests late.
LEMMA RestGood ==
  ASSUME Good(calls), NEW c \in calls
  PROVE  Good(Rest(c))
<1> DEFINE r(d) == IF d.kind = c.kind /\ d.n < c.n THEN [d EXCEPT !.late = TRUE] ELSE d
<1>1. \A d \in calls : r(d) \in Call /\ r(d).n = d.n /\ WellSent(r(d))
  <2> SUFFICES ASSUME NEW d \in calls PROVE r(d) \in Call /\ r(d).n = d.n /\ WellSent(r(d))
    OBVIOUS
  <2>1. d \in Call /\ WellSent(d)
    BY DEF Good
  <2> DEFINE e == [d EXCEPT !.late = TRUE]
  <2>2. e \in Call /\ e.n = d.n /\ WellSent(e)
    BY <2>1 DEF Call, WellSent
  <2> HIDE DEF e
  <2> QED BY <2>1, <2>2 DEF e
<1>2. Rest(c) = {r(d) : d \in calls \ {c}}
  BY DEF Rest
<1> HIDE DEF r
<1>3. {e.n : e \in Rest(c)} \in SUBSET {d.n : d \in calls}
  BY <1>1, <1>2
<1>4. Topped({e.n : e \in Rest(c)})
  BY <1>3, TopOfFewer DEF Good
<1> QED BY <1>1, <1>2, <1>4 DEF Good

\* What the answers keep of the requests.
LEMMA RestLike ==
  ASSUME Good(calls), NEW c \in calls, NEW e \in Rest(c)
  PROVE  \E d \in calls \ {c} : /\ e.kind = d.kind /\ e.query = d.query /\ e.target = d.target
                                /\ e.pk = d.pk /\ e.rows = d.rows
                                /\ (d.kind # c.kind => e = d)
<1>1. PICK d \in calls \ {c} : e = IF d.kind = c.kind /\ d.n < c.n THEN [d EXCEPT !.late = TRUE] ELSE d
  BY DEF Rest
<1>2. d \in Call
  BY DEF Good
<1> DEFINE l == [d EXCEPT !.late = TRUE]
<1>3. l.kind = d.kind /\ l.query = d.query /\ l.target = d.target /\ l.pk = d.pk /\ l.rows = d.rows
  BY <1>2 DEF Call
<1> HIDE DEF l
<1> QED BY <1>1, <1>3 DEF l

----------------------------------------------------------------------------
(* Types *)

TypeInv == TypeOK /\ Good(calls)

USE DEF TypeInv, TypeOK

Troubles == {"mixed", "late", "stale", "hasty", "failed", "gone"}

LEMMA MixedType == ASSUME NEW cs, NEW q PROVE Mixed(cs, q) \subseteq Troubles
BY DEF Mixed, Troubles

LEMMA OddType == ASSUME NEW c PROVE Odd(c) \subseteq Troubles
BY DEF Odd, Troubles

LEMMA RenderType ==
  ASSUME StudioConstants, TypeInv, NEW cs, Good(cs), NEW q \in Queries, q.page > 0,
         NEW v \in Views, NEW odd \in SUBSET Troubles, Render(cs, q, v, odd)
  PROVE  /\ Good(calls') /\ query' \in Queries /\ query'.page > 0 /\ view' = v
         /\ trouble' \subseteq Troubles /\ ticked' \subseteq Idents
         /\ editing' \in Idents \union {None} /\ loadingRows' \in BOOLEAN
<1> DEFINE moved  == q.table # query.table /\ q.table # None
           first  == IF moved THEN [q EXCEPT !.page = 1] ELSE q
           open   == IF moved /\ inspecting # None THEN {"stale"} ELSE {}
           loads  == v = DataGrid /\ q.table # None /\ <<q, v>> # <<query, view>>
           cs1    == IF moved THEN LoadSchema(cs, q) ELSE cs
           cs2    == IF loads THEN LoadRows(cs1, q) ELSE cs1
           cs3    == IF loads /\ first # q THEN LoadRows(cs2, first) ELSE cs2
<1>1. first \in Queries /\ first.page > 0
  BY DEF Queries
<1>2. /\ query' = first /\ view' = v /\ calls' = cs3
      /\ trouble' = trouble \union odd \union open \union Mixed(cs3, first)
      /\ ticked' = TicksAfter(moved)
      /\ editing' = IF moved THEN None ELSE editing
      /\ loadingRows' = (loadingRows \/ Of(cs3, "rows") \ Of(calls, "rows") # {})
  BY DEF Render
<1> HIDE DEF moved, first, loads
<1>3. Good(cs1)
  BY LoadGood
<1> HIDE DEF cs1
<1>4. Good(cs2)
  BY <1>3, LoadGood
<1> HIDE DEF cs2
<1>5. Good(cs3)
  BY <1>1, <1>4, LoadGood
<1> HIDE DEF cs3
<1>6. trouble' \subseteq Troubles
  BY <1>2, MixedType DEF Troubles
<1>7. ticked' \subseteq Idents /\ editing' \in Idents \union {None}
  BY <1>2 DEF TicksAfter
<1>8. loadingRows' \in BOOLEAN
  BY <1>2
<1> QED BY <1>1, <1>2, <1>5, <1>6, <1>7, <1>8

\* Everything but what Render sets.
LEMMA RenderedType ==
  ASSUME StudioConstants, TypeInv, NEW cs, Good(cs), NEW q \in Queries, q.page > 0,
         NEW v \in Views, NEW odd \in SUBSET Troubles, Render(cs, q, v, odd),
         listed' \subseteq Tables, schemaOf' \in Tables \union {None},
         grid' \in [of : Queries, keys : SUBSET Keys, total : Nat], moves' \in Nat,
         UNCHANGED <<existing, stored, inspecting, sqlRunning>>
  PROVE  TypeInv'
<1>1. /\ Good(calls') /\ query' \in Queries /\ query'.page > 0 /\ view' \in Views
      /\ trouble' \subseteq Troubles /\ ticked' \subseteq Idents
      /\ editing' \in Idents \union {None} /\ loadingRows' \in BOOLEAN
  BY RenderType
<1>2. calls' \subseteq Call
  BY <1>1 DEF Good
<1> QED BY <1>1, <1>2 DEF Troubles

LEMMA AskType ==
  ASSUME StudioConstants, TypeInv, NEW q \in Queries, q.page > 0, NEW v \in Views, Ask(q, v)
  PROVE  TypeInv'
<1>1. /\ Render(calls, q, v, {}) /\ moves' = moves + 1
      /\ UNCHANGED <<existing, stored, listed, schemaOf, grid, inspecting, sqlRunning>>
  BY DEF Ask, Move, Agent
<1>2. moves' \in Nat
  BY <1>1
<1> QED BY <1>1, <1>2, RenderedType

LEMMA SelectType ==
  ASSUME StudioConstants, TypeInv, NEW t \in Tables, SelectTable(t)
  PROVE  TypeInv'
<1>1. [query EXCEPT !.table = t] \in Queries /\ [query EXCEPT !.table = t].page > 0
  BY DEF Queries
<1>2. [view EXCEPT !.tab = "explorer"] \in Views
  BY DEF Views
<1> QED BY <1>1, <1>2, AskType DEF SelectTable

LEMMA QueryType ==
  ASSUME StudioConstants, TypeInv,
         \/ TurnPage
         \/ \E s \in PageSizes : Resize(s)
         \/ \E c \in Columns : SortBy(c) \/ FilterBy(c)
         \/ \E cs \in SUBSET Columns : DropFilters(cs)
  PROVE  TypeInv'
<1>1. CASE TurnPage
  <2>1. PICK p \in Neighbours : Ask([query EXCEPT !.page = p], view)
    BY <1>1 DEF TurnPage
  <2>2. p \in {query.page - 1, query.page + 1} /\ 1 <= p /\ query.page \in Nat
    BY DEF Neighbours, Queries
  <2>3. p \in Nat /\ p > 0
    BY <2>2
  <2>4. [query EXCEPT !.page = p] \in Queries /\ [query EXCEPT !.page = p].page > 0
    BY <2>3 DEF Queries
  <2> QED BY <2>1, <2>4, AskType
<1>2. ASSUME NEW s \in PageSizes, Resize(s) PROVE TypeInv'
  <2> DEFINE sized == [query EXCEPT !.size = s]
             q     == [query EXCEPT !.size = s, !.page = 1]
  <2>1. sized \in Queries
    BY DEF Queries
  <2>2. q = [sized EXCEPT !.page = 1]
    BY DEF Queries
  <2> HIDE DEF sized
  <2>3. [sized EXCEPT !.page = 1] \in Queries /\ [sized EXCEPT !.page = 1].page > 0
    BY <2>1 DEF Queries
  <2>4. q \in Queries /\ q.page > 0 /\ Ask(q, view)
    BY <1>2, <2>2, <2>3 DEF Resize
  <2> HIDE DEF q
  <2> QED BY <2>4, AskType
<1>3. ASSUME NEW c \in Columns, SortBy(c) PROVE TypeInv'
  <2>1. NextSort(c) \in Sorts
    BY DEF NextSort, Sorts
  <2>2. [query EXCEPT !.sort = NextSort(c)] \in Queries /\ [query EXCEPT !.sort = NextSort(c)].page > 0
    BY <2>1 DEF Queries
  <2> QED BY <1>3, <2>2, AskType DEF SortBy
<1>4. ASSUME NEW c \in Columns, FilterBy(c) PROVE TypeInv'
  <2>1. [query EXCEPT !.filters = @ \union {c}] \in Queries /\ [query EXCEPT !.filters = @ \union {c}].page > 0
    BY DEF Queries
  <2> QED BY <1>4, <2>1, AskType DEF FilterBy
<1>5. ASSUME NEW cs \in SUBSET Columns, DropFilters(cs) PROVE TypeInv'
  <2>1. [query EXCEPT !.filters = @ \ cs] \in Queries /\ [query EXCEPT !.filters = @ \ cs].page > 0
    BY DEF Queries
  <2> QED BY <1>5, <2>1, AskType DEF DropFilters
<1> QED BY <1>1, <1>2, <1>3, <1>4, <1>5

LEMMA ViewType ==
  ASSUME StudioConstants, TypeInv, SearchRows \/ Reload \/ \E v \in Views : ChangeView(v)
  PROVE  TypeInv'
<1>1. CASE \E v \in Views : ChangeView(v)
  BY <1>1, AskType DEF ChangeView
<1>2. CASE SearchRows
  <2> DEFINE q  == [query EXCEPT !.page = 1]
             cs == LoadRows(calls, query)
  <2>1. q \in Queries /\ q.page > 0
    BY DEF Queries
  <2>2. Good(cs)
    BY LoadGood
  <2>3. /\ Render(cs, q, view, {}) /\ moves' \in Nat
        /\ UNCHANGED <<existing, stored, listed, schemaOf, grid, inspecting, sqlRunning>>
    BY <1>2 DEF SearchRows, Move, Agent
  <2> HIDE DEF q, cs
  <2> QED BY <2>1, <2>2, <2>3, RenderedType
<1>3. CASE Reload
  <2> DEFINE cs == LoadTables(LoadSchema(LoadRows(calls, query), query), query)
  <2>1. Good(LoadRows(calls, query))
    BY LoadGood
  <2>2. Good(LoadSchema(LoadRows(calls, query), query))
    BY <2>1, LoadGood
  <2>3. Good(cs)
    BY <2>2, LoadGood
  <2>4. /\ Render(cs, query, view, {}) /\ moves' \in Nat
        /\ UNCHANGED <<existing, stored, listed, schemaOf, grid, inspecting, sqlRunning>>
    BY <1>3 DEF Reload, Move, Agent
  <2> HIDE DEF cs
  <2> QED BY <2>3, <2>4, RenderedType
<1> QED BY <1>1, <1>2, <1>3

LEMMA IdentType ==
  ASSUME StudioConstants, TypeInv, NEW k \in grid.keys
  PROVE  Ident(k) \in Idents
<1>1. Pk \in Columns /\ k \in Keys /\ grid.of.table \in Tables \union {None}
  BY PkType DEF Queries
<1> QED BY <1>1 DEF Ident, Idents

LEMMA HastyType == Hasty \subseteq Troubles
BY DEF Hasty, Troubles

LEMMA CellType ==
  ASSUME StudioConstants, TypeInv,
         \/ TickAll \/ CloseInspector \/ CancelEdit
         \/ \E k \in Keys : Tick(k) \/ EditCell(k)
  PROVE  TypeInv'
<1> USE DEF Move, Agent
<1>1. ASSUME NEW k \in Keys, Tick(k) PROVE TypeInv'
  <2>1. ticked' \subseteq Idents
    BY <1>1, IdentType DEF Tick
  <2>2. trouble' \subseteq Troubles
    BY <1>1, HastyType DEF Tick, Troubles
  <2> QED BY <1>1, <2>1, <2>2 DEF Tick, Troubles
<1>2. CASE TickAll
  <2>1. ticked' \subseteq Idents
    BY <1>2, IdentType DEF TickAll
  <2>2. trouble' \subseteq Troubles
    BY <1>2, HastyType DEF TickAll, Troubles
  <2> QED BY <1>2, <2>1, <2>2 DEF TickAll, Troubles
<1>3. ASSUME NEW k \in Keys, EditCell(k) PROVE TypeInv'
  <2>1. {editing', inspecting'} \subseteq Idents \union {None}
    BY <1>3, IdentType DEF EditCell
  <2>2. trouble' \subseteq Troubles
    BY <1>3, HastyType DEF EditCell, Troubles
  <2> QED BY <1>3, <2>1, <2>2 DEF EditCell, Troubles
<1>4. CASE CloseInspector
  BY <1>4 DEF CloseInspector
<1>5. CASE CancelEdit
  BY <1>5 DEF CancelEdit
<1> QED BY <1>1, <1>2, <1>3, <1>4, <1>5

LEMMA InTable ==
  ASSUME TypeInv, query.table # None
  PROVE  query.table \in Tables
BY DEF Queries

LEMMA WriteType ==
  ASSUME StudioConstants, TypeInv,
         \/ DeleteSelected \/ InsertRow \/ SaveCell \/ RunSql
         \/ \E t \in Tables : CreateTable(t)
  PROVE  TypeInv'
<1> USE DEF Move, Agent
<1>1. ASSUME NEW kind \in {"delete", "insert", "update"}, NEW rows \in SUBSET Idents,
             query.table # None, Write(kind, rows)
      PROVE  TypeInv'
  <2>1. Good(Send(calls, kind, query, rows))
    BY <1>1, InTable, SendGood DEF Kinds
  <2>2. Good(calls') /\ calls' \subseteq Call
    BY <1>1, <2>1 DEF Write, Good
  <2> QED BY <1>1, <2>2 DEF Write
<1>2. CASE DeleteSelected \/ InsertRow \/ SaveCell
  BY <1>1, <1>2 DEF DeleteSelected, InsertRow, SaveCell, Visible, InGrid
<1>3. CASE RunSql
  <2>1. Good(Send(calls, "sql", query, {}))
    BY SendGood DEF Kinds
  <2>2. Good(calls') /\ calls' \subseteq Call
    BY <1>3, <2>1 DEF RunSql, Good
  <2> QED BY <1>3, <2>2 DEF RunSql
<1>4. ASSUME NEW t \in Tables, CreateTable(t) PROVE TypeInv'
  <2> DEFINE d == NewCall(calls, "create", query, t, {})
  <2>1. d \in Call
    BY NewCallType DEF Kinds
  <2>2. WellSent(d)
    BY DEF NewCall, WellSent
  <2> HIDE DEF d
  <2>3. Good(calls \union {d})
    BY <2>1, <2>2, OneMoreGood
  <2>4. Good(calls') /\ calls' \subseteq Call
    BY <1>4, <2>3 DEF CreateTable, d, Good
  <2> QED BY <1>4, <2>4 DEF CreateTable
<1> QED BY <1>2, <1>3, <1>4

LEMMA UserType ==
  ASSUME StudioConstants, TypeInv, User
  PROVE  TypeInv'
BY SelectType, QueryType, ViewType, CellType, WriteType DEF User

\* A row of the page returned is a row stored, and there is a number of them.
LEMMA AnswerType ==
  ASSUME StudioConstants, TypeInv, NEW c \in calls, ~Rejects(c), NEW g \in Answers(c)
  PROVE  /\ Served(c, g) \in Call /\ WellSent(Served(c, g)) /\ Served(c, g).n = c.n
         /\ c.kind \in {"rows", "insert", "delete", "update"} => c.target \in existing
<1>1. c \in Call /\ WellSent(c)
  BY DEF Good
<1>2. c.kind \in {"rows", "insert", "delete", "update"} => c.target \in existing
  BY DEF Rejects
<1> DEFINE m == Matching(c.query, stored[c.target])
           n == IF c.kind = "rows" THEN Cardinality(m) ELSE 0
<1>3. c.kind = "rows" => stored[c.target] \subseteq Keys
  BY <1>2
<1>4. c.kind = "rows" => m \subseteq Keys
  BY <1>3 DEF Matching
<1>5. n \in Nat
  <2>1. CASE c.kind = "rows"
    <3>1. IsFiniteSet(m)
      BY <1>4, <2>1, FS_Subset DEF StudioConstants
    <3>2. Cardinality(m) \in Nat
      BY <3>1, FS_CardinalityType
    <3> QED BY <2>1, <3>2
  <2>2. CASE c.kind # "rows"
    BY <2>2
  <2> QED BY <2>1, <2>2
<1>6. c.kind = "rows" => g \subseteq m
  BY DEF Answers, Pages
<1>7. /\ c.kind = "rows" => g \subseteq Keys
      /\ c.kind = "tables" => g \subseteq Tables
      /\ c.kind \notin {"rows", "tables"} => g = {}
  BY <1>4, <1>6 DEF Answers
<1>8. g \subseteq Nat
  BY <1>7 DEF StudioConstants
<1>9. Served(c, g) = [c EXCEPT !.state = "served", !.got = g, !.total = n]
  BY DEF Served
<1> HIDE DEF n, m
<1> DEFINE d == [c EXCEPT !.state = "served", !.got = g, !.total = n]
<1>10. d \in Call /\ d.kind = c.kind /\ d.n = c.n /\ d.query = c.query /\ d.target = c.target /\ d.got = g
  BY <1>1, <1>5, <1>8 DEF Call
<1> HIDE DEF d
<1>11. WellSent(d)
  BY <1>1, <1>7, <1>10 DEF WellSent
<1> QED BY <1>2, <1>9, <1>10, <1>11 DEF d

LEMMA EffectsType ==
  ASSUME StudioConstants, TypeInv, NEW c \in calls, ~Rejects(c), NEW e \in Effects(c)
  PROVE  e[1] \subseteq Tables /\ e[2] \in [Tables -> SUBSET Keys]
<1>1. c \in Call /\ WellSent(c)
  BY DEF Good
<1>2. c.kind \in {"delete", "insert", "create"} => c.target \in Tables
  BY <1>1 DEF WellSent
<1> DEFINE t == c.target
           put(s) == <<existing, [stored EXCEPT ![t] = s]>>
<1>3. ASSUME NEW s \in SUBSET Keys
      PROVE  put(s)[1] \subseteq Tables /\ put(s)[2] \in [Tables -> SUBSET Keys]
  OBVIOUS
<1>4. CASE c.kind = "delete"
  <2>1. e = put(stored[t] \ {r.key : r \in c.rows})
    BY <1>4 DEF Effects
  <2>2. stored[t] \ {r.key : r \in c.rows} \in SUBSET Keys
    BY <1>2, <1>4
  <2> HIDE DEF put
  <2> QED BY <1>3, <2>1, <2>2
<1>5. CASE c.kind = "insert"
  <2>1. PICK k \in Keys \ stored[t] : e = put(stored[t] \union {k})
    BY <1>5 DEF Effects
  <2>2. stored[t] \union {k} \in SUBSET Keys
    BY <1>2, <1>5, <2>1
  <2> HIDE DEF put
  <2> QED BY <1>3, <2>1, <2>2
<1>6. CASE c.kind = "create"
  <2>1. e = <<existing \union {t}, [stored EXCEPT ![t] = {}]>>
    BY <1>6 DEF Effects
  <2> QED BY <1>2, <1>6, <2>1
<1>7. CASE c.kind = "sql"
  <2>1. \/ e = <<existing, stored>>
        \/ \E u \in existing : e = <<existing, [stored EXCEPT ![u] = {}]>>
        \/ \E u \in existing : e = <<existing \ {u}, stored>>
    BY <1>7 DEF Effects
  <2> QED BY <2>1
<1>8. CASE c.kind \notin {"delete", "insert", "create", "sql"}
  BY <1>8 DEF Effects
<1> QED BY <1>4, <1>5, <1>6, <1>7, <1>8

LEMMA ServeType ==
  ASSUME StudioConstants, TypeInv, NEW c \in calls, Serve(c)
  PROVE  TypeInv'
<1>1. c \in Call /\ WellSent(c)
  BY DEF Good
<1>2. UNCHANGED <<listed, query, view, schemaOf, grid, ticked, editing, inspecting,
                  loadingRows, sqlRunning, moves, trouble>>
  BY DEF Serve
<1>3. Good(calls \ {c})
  BY FewerGood
<1>4. CASE Rejects(c)
  <2> DEFINE d == [c EXCEPT !.state = "refused"]
  <2>1. d \in Call /\ WellSent(d)
    BY <1>1 DEF Call, WellSent
  <2>2. calls' = (calls \ {c}) \union {d} /\ UNCHANGED <<existing, stored>>
    BY <1>4 DEF Serve, Agent
  <2> HIDE DEF d
  <2>3. Good(calls') /\ calls' \subseteq Call
    BY <1>3, <2>1, <2>2, OneMoreGood DEF Good
  <2> QED BY <1>2, <2>2, <2>3
<1>5. CASE ~Rejects(c)
  <2>0. PICK g \in Answers(c) : calls' = (calls \ {c}) \union {Served(c, g)}
    BY <1>5 DEF Serve
  <2> DEFINE d == Served(c, g)
  <2>1. d \in Call /\ WellSent(d)
    BY <1>5, AnswerType
  <2>2. calls' = (calls \ {c}) \union {d}
    BY <2>0
  <2> HIDE DEF d
  <2>3. Good(calls') /\ calls' \subseteq Call
    BY <1>3, <2>1, <2>2, OneMoreGood DEF Good
  <2>4. PICK e \in Effects(c) : existing' = e[1] /\ stored' = e[2]
    BY <1>5 DEF Serve
  <2>5. existing' \subseteq Tables /\ stored' \in [Tables -> SUBSET Keys]
    BY <1>5, <2>4, EffectsType
  <2> QED BY <1>2, <2>3, <2>5
<1> QED BY <1>4, <1>5

LEMMA GotTablesType ==
  ASSUME StudioConstants, TypeInv, NEW c \in calls, GotTables(c)
  PROVE  TypeInv'
<1>1. c \in Call /\ c.got \subseteq Tables /\ c.query \in Queries
  BY DEF Good, WellSent, GotTables, Call
<1> DEFINE t == IF c.got = {} THEN None
                ELSE IF c.query.table \notin c.got THEN First(c.got) ELSE query.table
           q == [query EXCEPT !.table = t]
<1>2. c.got # {} => First(c.got) \in Tables
  BY <1>1 DEF First, StudioConstants
<1>3. t \in Tables \union {None}
  BY <1>2 DEF Queries
<1>4. /\ listed' = c.got
      /\ grid' = IF t = None THEN [grid EXCEPT !.keys = {}] ELSE grid
      /\ schemaOf' = IF t = None THEN None ELSE schemaOf
      /\ Render(Rest(c), q, view, Odd(c))
      /\ UNCHANGED <<existing, stored, inspecting, sqlRunning, moves>>
  BY DEF GotTables, Agent
<1> HIDE DEF t
<1>5. q \in Queries /\ q.page > 0
  BY <1>3 DEF Queries
<1>6. Good(Rest(c)) /\ Odd(c) \in SUBSET Troubles
  BY RestGood, OddType
<1>7. schemaOf' \in Tables \union {None}
  BY <1>4
<1>8. grid' \in [of : Queries, keys : SUBSET Keys, total : Nat]
  BY <1>4
<1> HIDE DEF q
<1> QED BY <1>1, <1>4, <1>5, <1>6, <1>7, <1>8, RenderedType

LEMMA GotTableType ==
  ASSUME StudioConstants, TypeInv, NEW c \in calls, GotTable(c)
  PROVE  TypeInv'
<1>1. c \in Call /\ c.target \in Tables /\ c.query \in Queries
  BY DEF Good, WellSent, GotTable, Call
<1> DEFINE q  == [query EXCEPT !.table = c.target]
           cs == LoadTables(Rest(c), c.query)
<1>2. q \in Queries /\ q.page > 0
  BY <1>1 DEF Queries
<1>3. Good(cs)
  BY <1>1, RestGood, LoadGood
<1>4. /\ Render(cs, q, view, Odd(c))
      /\ UNCHANGED <<existing, stored, listed, schemaOf, grid, inspecting, sqlRunning, moves>>
  BY DEF GotTable, Agent
<1>5. Odd(c) \in SUBSET Troubles
  BY OddType
<1> HIDE DEF q, cs
<1> QED BY <1>2, <1>3, <1>4, <1>5, RenderedType

LEMMA GotWriteType ==
  ASSUME StudioConstants, TypeInv, NEW c \in calls, GotWrite(c)
  PROVE  TypeInv'
<1> DEFINE cs == Reloaded(Rest(c), c.query)
<1>1. c.query \in Queries
  BY DEF Good, Call
<1>2. Good(Rest(c))
  BY RestGood
<1>3. Good(LoadRows(Rest(c), c.query))
  BY <1>1, <1>2, LoadGood
<1>4. Good(cs)
  BY <1>1, <1>3, LoadGood DEF Reloaded
<1> DEFINE stale == IF c.query # query THEN {"stale"} ELSE {}
<1>5. /\ calls' = cs
      /\ ticked' = IF c.kind = "delete" THEN {} ELSE ticked
      /\ loadingRows' = (loadingRows \/ Of(cs, "rows") \ Of(calls, "rows") # {})
      /\ trouble' = trouble \union stale \union Odd(c) \union Mixed(cs, query)
      /\ UNCHANGED <<existing, stored, listed, query, view, schemaOf, grid, editing, inspecting, sqlRunning, moves>>
  BY DEF GotWrite, Agent
<1> HIDE DEF cs
<1>6. trouble' \subseteq Troubles
  BY <1>5, OddType, MixedType DEF Troubles
<1>7. calls' \subseteq Call /\ Good(calls')
  BY <1>4, <1>5 DEF Good
<1>8. loadingRows' \in BOOLEAN
  BY <1>5
<1>9. ticked' \subseteq Idents
  BY <1>5
<1> QED BY <1>5, <1>6, <1>7, <1>8, <1>9 DEF Troubles

LEMMA GotType ==
  ASSUME StudioConstants, TypeInv, NEW c \in calls,
         GotRows(c) \/ GotSchema(c) \/ GotSql(c)
  PROVE  TypeInv'
<1>1. c \in Call /\ WellSent(c)
  BY DEF Good
<1>2. Good(Rest(c)) /\ Rest(c) \subseteq Call
  BY RestGood DEF Good
<1>3. CASE GotRows(c)
  <2>1. grid' \in [of : Queries, keys : SUBSET Keys, total : Nat]
    BY <1>1, <1>3 DEF GotRows, Call, WellSent
  <2>2. trouble' \subseteq Troubles
    BY <1>3, OddType DEF GotRows, Troubles
  <2> QED BY <1>2, <1>3, <2>1, <2>2 DEF GotRows, Agent, Troubles
<1>4. CASE GotSchema(c)
  <2>1. schemaOf' \in Tables \union {None}
    BY <1>4 DEF GotSchema
  <2>2. trouble' \subseteq Troubles
    BY <1>4, OddType DEF GotSchema, Troubles
  <2> QED BY <1>2, <1>4, <2>1, <2>2 DEF GotSchema, Agent, Troubles
<1>5. CASE GotSql(c)
  BY <1>2, <1>5 DEF GotSql, Agent
<1> QED BY <1>3, <1>4, <1>5

LEMMA FailsType ==
  ASSUME StudioConstants, TypeInv, NEW c \in calls, Fails(c)
  PROVE  TypeInv'
<1>1. Good(calls') /\ calls' \subseteq Call
  BY FewerGood DEF Fails, Good
<1>2. loadingRows' \in BOOLEAN
  BY DEF Fails, StillLoading
<1>3. sqlRunning' \in BOOLEAN
  BY DEF Fails
<1> QED BY <1>1, <1>2, <1>3 DEF Fails, Agent

LEMMA StepType ==
  ASSUME StudioConstants, TypeInv, [Next]_vars
  PROVE  TypeInv'
<1>1. CASE User
  BY <1>1, UserType
<1>2. ASSUME NEW c \in calls, Serve(c) PROVE TypeInv'
  BY <1>2, ServeType
<1>3. CASE Answer
  BY <1>3, GotTablesType, GotTableType, GotWriteType, GotType, FailsType DEF Answer
<1>4. CASE UNCHANGED vars
  BY <1>4 DEF vars
<1> QED BY <1>1, <1>2, <1>3, <1>4 DEF Next

LEMMA InitType ==
  ASSUME StudioConstants, Init
  PROVE  TypeInv
<1>1. Blank \in Queries /\ Blank.page > 0
  BY DEF Blank, NoSort, Queries, Sorts, StudioConstants
<1>2. Good({})
  BY DEF Good, Topped
<1>3. schemaOf \in Tables \union {None}
  BY DEF Init
<1>4. Good(calls) /\ calls \subseteq Call
  BY <1>1, <1>2, <1>3, LoadGood DEF Init, Good
<1>5. DataGrid \in Views
  BY DEF DataGrid, Views
<1>6. grid \in [of : Queries, keys : SUBSET Keys, total : Nat]
  BY <1>1 DEF Init
<1> QED BY <1>1, <1>4, <1>5, <1>6 DEF Init, StudioConstants

\* The variables of the studio keep their types, its requests name the tables they are
\* about and the agent's rows stay those of its tables.
THEOREM TypeCorrect ==
  ASSUME StudioConstants
  PROVE  Spec => []TypeOK
<1>1. Init => TypeInv
  BY InitType
<1>2. TypeInv /\ [Next]_vars => TypeInv'
  BY StepType
<1>3. TypeInv => TypeOK
  OBVIOUS
<1> QED BY <1>1, <1>2, <1>3, PTL DEF Spec

----------------------------------------------------------------------------
(* The spinner and the lock of the console *)

Spins(cs) == /\ loadingRows => Of(cs, "rows") # {}
             /\ sqlRunning  => Of(cs, "sql") # {}

LEMMA MoreSpin ==
  ASSUME NEW cs, Spins(cs), NEW ds, cs \subseteq ds
  PROVE  Spins(ds)
BY DEF Spins, Of

LEMMA LoadMore ==
  ASSUME NEW cs, NEW q
  PROVE  cs \subseteq LoadRows(cs, q) /\ cs \subseteq LoadSchema(cs, q) /\ cs \subseteq LoadTables(cs, q)
BY DEF LoadRows, LoadSchema, LoadTables, Send

\* The effects of a render add requests, and the spinner they start has one.
LEMMA RenderSpin ==
  ASSUME NEW cs, NEW q, NEW v, NEW odd, TypeInv, Spins(cs), Render(cs, q, v, odd), UNCHANGED sqlRunning
  PROVE  NoStuckSpinner'
<1> DEFINE moved  == q.table # query.table /\ q.table # None
           first  == IF moved THEN [q EXCEPT !.page = 1] ELSE q
           loads  == v = DataGrid /\ q.table # None /\ <<q, v>> # <<query, view>>
           cs1    == IF moved THEN LoadSchema(cs, q) ELSE cs
           cs2    == IF loads THEN LoadRows(cs1, q) ELSE cs1
           cs3    == IF loads /\ first # q THEN LoadRows(cs2, first) ELSE cs2
<1>1. /\ calls' = cs3
      /\ loadingRows' = (loadingRows \/ Of(cs3, "rows") \ Of(calls, "rows") # {})
  BY DEF Render
<1> HIDE DEF moved, first, loads
<1>2. cs \subseteq cs1
  BY LoadMore
<1> HIDE DEF cs1
<1>3. cs1 \subseteq cs2
  BY LoadMore
<1> HIDE DEF cs2
<1>4. cs2 \subseteq cs3
  BY LoadMore
<1> HIDE DEF cs3
<1>5. Spins(cs3)
  BY <1>2, <1>3, <1>4, MoreSpin
<1>6. loadingRows' => Of(calls', "rows") # {}
  BY <1>1, <1>5 DEF Spins
<1>7. sqlRunning' => Of(calls', "sql") # {}
  BY <1>1, <1>5 DEF Spins
<1> QED BY <1>6, <1>7 DEF NoStuckSpinner

\* The requests of the other kinds stay when c is answered.
LEMMA RestOf ==
  ASSUME Good(calls), NEW c \in calls, NEW kind, c.kind # kind
  PROVE  Of(Rest(c), kind) = Of(calls, kind)
<1>1. \A e \in Of(Rest(c), kind) : e \in Of(calls, kind)
  <2> SUFFICES ASSUME NEW e \in Of(Rest(c), kind) PROVE e \in Of(calls, kind)
    OBVIOUS
  <2>1. e \in Rest(c) /\ e.kind = kind
    BY DEF Of
  <2>2. PICK d \in calls \ {c} : e.kind = d.kind /\ (d.kind # c.kind => e = d)
    BY <2>1, RestLike
  <2> QED BY <2>1, <2>2 DEF Of
<1>2. \A d \in Of(calls, kind) : d \in Of(Rest(c), kind)
  BY DEF Of, Rest
<1> QED BY <1>1, <1>2

LEMMA RestSpin ==
  ASSUME Good(calls), NoStuckSpinner, NEW c \in calls, c.kind \notin {"rows", "sql"}
  PROVE  Spins(Rest(c))
BY RestOf DEF NoStuckSpinner, Spins

LEMMA AskSpin ==
  ASSUME TypeInv, NoStuckSpinner, NEW q, NEW v, Ask(q, v)
  PROVE  NoStuckSpinner'
BY RenderSpin DEF Ask, Spins, NoStuckSpinner

LEMMA UserSpin ==
  ASSUME TypeInv, NoStuckSpinner, User
  PROVE  NoStuckSpinner'
<1>1. Spins(calls)
  BY DEF Spins, NoStuckSpinner
<1>2. ASSUME \/ \E t \in Tables : SelectTable(t)
             \/ \E s \in PageSizes : Resize(s)
             \/ \E c \in Columns : SortBy(c) \/ FilterBy(c)
             \/ \E cs \in SUBSET Columns : DropFilters(cs)
             \/ \E v \in Views : ChangeView(v)
             \/ TurnPage
      PROVE  NoStuckSpinner'
  BY <1>2, AskSpin DEF SelectTable, Resize, SortBy, FilterBy, DropFilters, ChangeView, TurnPage
<1>3. CASE SearchRows
  <2> DEFINE cs == LoadRows(calls, query)
  <2>1. Spins(cs)
    BY <1>1, LoadMore, MoreSpin
  <2>2. Render(cs, [query EXCEPT !.page = 1], view, {}) /\ UNCHANGED sqlRunning
    BY <1>3 DEF SearchRows
  <2> HIDE DEF cs
  <2> QED BY <2>1, <2>2, RenderSpin
<1>4. CASE Reload
  <2> DEFINE cs1 == LoadRows(calls, query)
             cs2 == LoadSchema(cs1, query)
             cs  == LoadTables(cs2, query)
  <2>1. calls \subseteq cs1 /\ cs1 \subseteq cs2 /\ cs2 \subseteq cs
    BY LoadMore
  <2>2. Render(cs, query, view, {}) /\ UNCHANGED sqlRunning
    BY <1>4 DEF Reload
  <2> HIDE DEF cs1, cs2, cs
  <2>3. Spins(cs)
    BY <1>1, <2>1, MoreSpin
  <2> QED BY <2>2, <2>3, RenderSpin
<1>5. ASSUME \/ TickAll \/ CloseInspector \/ CancelEdit
             \/ \E k \in Keys : Tick(k) \/ EditCell(k)
      PROVE  NoStuckSpinner'
  BY <1>5 DEF TickAll, CloseInspector, CancelEdit, Tick, EditCell, NoStuckSpinner
<1>6. ASSUME DeleteSelected \/ InsertRow \/ SaveCell \/ \E t \in Tables : CreateTable(t)
      PROVE  NoStuckSpinner'
  <2>1. calls \subseteq calls' /\ UNCHANGED <<loadingRows, sqlRunning>>
    BY <1>6 DEF DeleteSelected, InsertRow, SaveCell, CreateTable, Write, Send
  <2> QED BY <2>1 DEF NoStuckSpinner, Of
<1>7. CASE RunSql
  <2> DEFINE d == NewCall(calls, "sql", query, query.table, {})
  <2>1. calls' = calls \union {d} /\ UNCHANGED loadingRows
    BY <1>7 DEF RunSql, Send
  <2>2. d.kind = "sql"
    BY DEF NewCall
  <2> HIDE DEF d
  <2> QED BY <2>1, <2>2 DEF NoStuckSpinner, Of
<1> QED BY <1>2, <1>3, <1>4, <1>5, <1>6, <1>7 DEF User

LEMMA ServeSpin ==
  ASSUME TypeInv, NoStuckSpinner, NEW c \in calls, Serve(c)
  PROVE  NoStuckSpinner'
<1>1. c \in Call
  BY DEF Good
<1>2. PICK d : calls' = (calls \ {c}) \union {d} /\ d.kind = c.kind
  <2>1. [c EXCEPT !.state = "refused"].kind = c.kind /\ \A g : Served(c, g).kind = c.kind
    BY <1>1 DEF Served, Call
  <2> QED BY <2>1 DEF Serve
<1>3. UNCHANGED <<loadingRows, sqlRunning>>
  BY DEF Serve
<1>4. \A kind : Of(calls, kind) # {} => Of(calls', kind) # {}
  BY <1>2 DEF Of
<1> QED BY <1>3, <1>4 DEF NoStuckSpinner

LEMMA AnswerSpin ==
  ASSUME TypeInv, NoStuckSpinner, NEW c \in calls,
         \/ GotRows(c) \/ GotSchema(c) \/ GotTables(c) \/ GotWrite(c)
         \/ GotTable(c) \/ GotSql(c) \/ Fails(c)
  PROVE  NoStuckSpinner'
<1>1. CASE GotRows(c)
  BY <1>1, RestOf DEF GotRows, NoStuckSpinner
<1>2. CASE GotSchema(c)
  BY <1>2, RestOf DEF GotSchema, NoStuckSpinner
<1>3. CASE GotTables(c)
  <2>1. Spins(Rest(c))
    BY <1>3, RestSpin DEF GotTables
  <2>2. PICK q : Render(Rest(c), q, view, Odd(c)) /\ UNCHANGED sqlRunning
    BY <1>3 DEF GotTables
  <2> QED BY <2>1, <2>2, RenderSpin
<1>4. CASE GotWrite(c)
  <2> DEFINE cs1 == LoadRows(Rest(c), c.query)
             cs  == LoadTables(cs1, c.query)
  <2>1. Rest(c) \subseteq cs1 /\ cs1 \subseteq cs
    BY LoadMore
  <2>2. Spins(Rest(c))
    BY <1>4, RestSpin DEF GotWrite
  <2>3. /\ calls' = cs /\ UNCHANGED sqlRunning
        /\ loadingRows' = (loadingRows \/ Of(cs, "rows") \ Of(calls, "rows") # {})
    BY <1>4 DEF GotWrite, Reloaded
  <2> HIDE DEF cs1, cs
  <2>4. Spins(cs)
    BY <2>1, <2>2, MoreSpin
  <2> QED BY <2>3, <2>4 DEF Spins, NoStuckSpinner
<1>5. CASE GotTable(c)
  <2> DEFINE cs == LoadTables(Rest(c), c.query)
  <2>1. Spins(cs)
    BY <1>5, RestSpin, LoadMore, MoreSpin DEF GotTable
  <2>2. PICK q : Render(cs, q, view, Odd(c)) /\ UNCHANGED sqlRunning
    BY <1>5 DEF GotTable
  <2> HIDE DEF cs
  <2> QED BY <2>1, <2>2, RenderSpin
<1>6. CASE GotSql(c)
  BY <1>6, RestOf DEF GotSql, NoStuckSpinner
<1>7. CASE Fails(c)
  <2>1. \A kind : c.kind # kind => Of(calls \ {c}, kind) = Of(calls, kind)
    BY DEF Of
  <2> QED BY <1>7, <2>1 DEF Fails, StillLoading, NoStuckSpinner
<1> QED BY <1>1, <1>2, <1>3, <1>4, <1>5, <1>6, <1>7

\* However the requests overlap, fail or are answered, the spinner of the grid and the
\* lock of the console have a request that ends them.
THEOREM SpinnerCorrect ==
  ASSUME StudioConstants
  PROVE  Spec => []NoStuckSpinner
<1>1. Init => TypeInv /\ NoStuckSpinner
  BY InitType DEF Init, NoStuckSpinner
<1>2. TypeInv /\ NoStuckSpinner /\ [Next]_vars => (TypeInv /\ NoStuckSpinner)'
  <2> SUFFICES ASSUME TypeInv, NoStuckSpinner, [Next]_vars
               PROVE  (TypeInv /\ NoStuckSpinner)'
    OBVIOUS
  <2>1. TypeInv'
    BY StepType
  <2>2. CASE User
    BY <2>1, <2>2, UserSpin
  <2>3. CASE Answer
    BY <2>1, <2>3, AnswerSpin DEF Answer
  <2>4. ASSUME NEW c \in calls, Serve(c) PROVE NoStuckSpinner'
    BY <2>4, ServeSpin
  <2>5. CASE UNCHANGED vars
    BY <2>1, <2>5 DEF vars, NoStuckSpinner
  <2> QED BY <2>1, <2>2, <2>3, <2>4, <2>5 DEF Next
<1> QED BY <1>1, <1>2, PTL DEF Spec

----------------------------------------------------------------------------
(* What the writes name.  As long as nothing went out of the ordinary, the  *)
(* reads under way are of the selected table, and so are the grid, once     *)
(* loaded, and every row the page names; where it names one, it knows the   *)
(* columns of that table.                                                   *)

Own(cs, t) == \A c \in cs : c.kind \in {"rows", "schema"} => c.target = t

Aimed(cs) == \A c \in cs : c.kind \in {"delete", "update"} =>
               \A r \in c.rows : r.from = c.target /\ r.col = PkOf[c.target] /\ c.pk = r.col

Named(r) == r.from = query.table /\ r.col = PkOf[query.table] /\ schemaOf = query.table

Faced == query.table # None =>
           /\ \A r \in ticked : Named(r)
           /\ editing # None => Named(editing)
           /\ inspecting # None => Named(inspecting)
           /\ view = DataGrid /\ ~loadingRows => grid.of.table = query.table

WriteInv == trouble = {} => Own(calls, query.table) /\ Aimed(calls) /\ Faced

LEMMA NewCallFields ==
  ASSUME NEW cs, NEW kind, NEW q, NEW target, NEW rows
  PROVE  LET d == NewCall(cs, kind, q, target, rows)
         IN  d.kind = kind /\ d.query = q /\ d.target = target /\ d.rows = rows /\ d.pk = Pk
BY DEF NewCall

LEMMA LoadAimed ==
  ASSUME NEW cs, Aimed(cs), NEW q
  PROVE  Aimed(LoadRows(cs, q)) /\ Aimed(LoadSchema(cs, q)) /\ Aimed(LoadTables(cs, q))
<1>1. ASSUME NEW kind \in {"rows", "schema", "tables"} PROVE Aimed(Send(cs, kind, q, {}))
  <2> DEFINE d == NewCall(cs, kind, q, q.table, {})
  <2>1. d.kind = kind
    BY NewCallFields
  <2> HIDE DEF d
  <2> QED BY <2>1 DEF Send, Aimed, d
<1> QED BY <1>1 DEF LoadRows, LoadSchema, LoadTables

LEMMA UnmixedOwn ==
  ASSUME NEW cs, NEW q, Mixed(cs, q) = {}
  PROVE  Own(cs, q.table)
BY DEF Mixed, Own, Of

\* The rows effect starts the spinner.
LEMMA LoadStarts ==
  ASSUME StudioConstants, TypeInv, NEW cs, Good(cs), Of(calls, "rows") \subseteq cs,
         NEW q \in Queries, q.table # None
  PROVE  Of(LoadRows(cs, q), "rows") \ Of(calls, "rows") # {}
<1> DEFINE d == NewCall(cs, "rows", q, q.table, {})
<1>1. q.table \in Tables \union {None} /\ "rows" \in Kinds /\ {} \in SUBSET Idents
  BY DEF Queries, Kinds
<1>2. d \notin cs
  BY <1>1, NewCallType
<1>3. d.kind = "rows"
  BY NewCallFields
<1>4. LoadRows(cs, q) = cs \union {d}
  BY DEF LoadRows, Send
<1> HIDE DEF d
<1> QED BY <1>2, <1>3, <1>4 DEF Of

LEMMA RenderWrite ==
  ASSUME StudioConstants, TypeInv, WriteInv, NEW cs, Good(cs), Aimed(cs),
         Of(calls, "rows") \subseteq cs, NEW q \in Queries, NEW v, NEW odd,
         Render(cs, q, v, odd), UNCHANGED inspecting,
         q.table # None => grid' = grid /\ schemaOf' = schemaOf
  PROVE  WriteInv'
<1> DEFINE moved  == q.table # query.table /\ q.table # None
           first  == IF moved THEN [q EXCEPT !.page = 1] ELSE q
           open   == IF moved /\ inspecting # None THEN {"stale"} ELSE {}
           loads  == v = DataGrid /\ q.table # None /\ <<q, v>> # <<query, view>>
           cs1    == IF moved THEN LoadSchema(cs, q) ELSE cs
           cs2    == IF loads THEN LoadRows(cs1, q) ELSE cs1
           cs3    == IF loads /\ first # q THEN LoadRows(cs2, first) ELSE cs2
<1> SUFFICES ASSUME trouble' = {}
             PROVE  Own(calls', query'.table) /\ Aimed(calls') /\ Faced'
  BY DEF WriteInv, Own, Aimed
<1>1. /\ query' = first /\ view' = v /\ calls' = cs3
      /\ trouble' = trouble \union odd \union open \union Mixed(cs3, first)
      /\ ticked' = TicksAfter(moved)
      /\ editing' = IF moved THEN None ELSE editing
      /\ loadingRows' = (loadingRows \/ Of(cs3, "rows") \ Of(calls, "rows") # {})
  BY DEF Render
<1>2. first.table = q.table /\ first \in Queries
  BY DEF Queries
<1>3. moved <=> q.table # query.table /\ q.table # None
  OBVIOUS
<1>4. loads <=> v = DataGrid /\ q.table # None /\ <<q, v>> # <<query, view>>
  OBVIOUS
<1>5. moved => inspecting = None
  BY <1>1
<1> HIDE DEF moved, first, open, loads
<1>6. Good(cs1) /\ Aimed(cs1) /\ cs \subseteq cs1
  BY LoadGood, LoadAimed, LoadMore
<1> HIDE DEF cs1
<1>7. /\ Good(cs2) /\ Aimed(cs2)
      /\ loads => Of(cs2, "rows") \ Of(calls, "rows") # {}
  BY <1>4, <1>6, LoadGood, LoadAimed, LoadStarts
<1> HIDE DEF cs2
<1>8. /\ Aimed(cs3)
      /\ loads => Of(cs3, "rows") \ Of(calls, "rows") # {}
  <2>1. cs2 \subseteq cs3
    BY LoadMore
  <2>2. Of(cs2, "rows") \subseteq Of(cs3, "rows")
    BY <2>1 DEF Of
  <2>3. Aimed(cs3)
    BY <1>7, LoadAimed
  <2> HIDE DEF cs3
  <2> QED BY <1>7, <2>2, <2>3
<1> HIDE DEF cs3
<1>9. Own(cs3, first.table) /\ trouble = {}
  BY <1>1, UnmixedOwn
<1>10. Own(calls', query'.table) /\ Aimed(calls')
  BY <1>1, <1>8, <1>9 DEF Own, Aimed
<1>11. Faced'
  <2> SUFFICES ASSUME q.table # None
               PROVE  /\ \A r \in ticked' : Named(r)'
                      /\ editing' # None => Named(editing)'
                      /\ inspecting' # None => Named(inspecting)'
                      /\ view' = DataGrid /\ ~loadingRows' => grid'.of.table = query'.table
    BY <1>1, <1>2 DEF Faced, Named
  <2>1. grid' = grid /\ schemaOf' = schemaOf /\ query'.table = q.table
    BY <1>1, <1>2
  <2>2. CASE moved
    <3>1. ticked' = {} /\ editing' = None /\ inspecting' = None
      BY <1>1, <1>5, <2>2 DEF TicksAfter
    <3>2. view' = DataGrid => loadingRows'
      <4>1. view' = DataGrid => loads
        BY <1>1, <1>3, <1>4, <2>2
      <4> QED BY <1>1, <1>8, <4>1
    <3> QED BY <3>1, <3>2
  <2>3. CASE ~moved
    <3>1. q.table = query.table /\ Faced
      BY <1>3, <1>9, <2>3 DEF WriteInv
    <3>2. ticked' = ticked /\ editing' = editing /\ inspecting' = inspecting
      BY <1>1, <2>3 DEF TicksAfter
    <3>3. \A r \in ticked' : Named(r)'
      BY <2>1, <3>1, <3>2 DEF Faced, Named
    <3>4. editing' # None => Named(editing)'
      BY <2>1, <3>1, <3>2 DEF Faced, Named
    <3>5. inspecting' # None => Named(inspecting)'
      BY <2>1, <3>1, <3>2 DEF Faced, Named
    <3>6. view' = DataGrid /\ ~loadingRows' => grid'.of.table = query'.table
      <4> SUFFICES ASSUME view' = DataGrid, ~loadingRows' PROVE grid'.of.table = query'.table
        OBVIOUS
      <4>1. ~loads /\ ~loadingRows
        BY <1>1, <1>8
      <4>2. view = DataGrid
        BY <1>1, <1>4, <4>1
      <4> QED BY <2>1, <3>1, <4>1, <4>2 DEF Faced
    <3> QED BY <3>3, <3>4, <3>5, <3>6
  <2> QED BY <2>2, <2>3
<1> QED BY <1>10, <1>11

LEMMA RestAimed ==
  ASSUME Good(calls), NEW c \in calls, Aimed(calls)
  PROVE  Aimed(Rest(c))
<1> SUFFICES ASSUME NEW e \in Rest(c), e.kind \in {"delete", "update"}
             PROVE  \A r \in e.rows : r.from = e.target /\ r.col = PkOf[e.target] /\ e.pk = r.col
  BY DEF Aimed
<1>1. PICK d \in calls : e.kind = d.kind /\ e.target = d.target /\ e.pk = d.pk /\ e.rows = d.rows
  BY RestLike
<1>2. \A r \in d.rows : r.from = d.target /\ r.col = PkOf[d.target] /\ d.pk = r.col
  BY <1>1 DEF Aimed
<1> QED BY <1>1, <1>2

LEMMA RestOwn ==
  ASSUME Good(calls), NEW c \in calls, NEW t, Own(calls, t)
  PROVE  Own(Rest(c), t)
<1> SUFFICES ASSUME NEW e \in Rest(c), e.kind \in {"rows", "schema"} PROVE e.target = t
  BY DEF Own
<1>1. PICK d \in calls : e.kind = d.kind /\ e.target = d.target
  BY RestLike
<1> QED BY <1>1 DEF Own

LEMMA AskWrite ==
  ASSUME StudioConstants, TypeInv, WriteInv, NEW q \in Queries, NEW v, Ask(q, v), trouble' = {}
  PROVE  WriteInv'
<1>1. Render(calls, q, v, {}) /\ UNCHANGED <<inspecting, grid, schemaOf>>
  BY DEF Ask
<1>2. trouble = {}
  BY <1>1 DEF Render
<1>3. Aimed(calls) /\ Of(calls, "rows") \subseteq calls
  BY <1>2 DEF WriteInv, Of
<1> QED BY <1>1, <1>3, RenderWrite

LEMMA LoadsWrite ==
  ASSUME StudioConstants, TypeInv, WriteInv, SearchRows \/ Reload, trouble' = {}
  PROVE  WriteInv'
<1>1. CASE SearchRows
  <2> DEFINE cs == LoadRows(calls, query)
             q  == [query EXCEPT !.page = 1]
  <2>1. q \in Queries
    BY DEF Queries
  <2>2. Render(cs, q, view, {}) /\ UNCHANGED <<inspecting, grid, schemaOf>>
    BY <1>1 DEF SearchRows
  <2>3. trouble = {}
    BY <2>2 DEF Render
  <2>4. Good(cs) /\ Aimed(cs) /\ calls \subseteq cs
    BY <2>3, LoadGood, LoadAimed, LoadMore DEF WriteInv
  <2> HIDE DEF cs, q
  <2>5. Of(calls, "rows") \subseteq cs
    BY <2>4 DEF Of
  <2> QED BY <2>1, <2>2, <2>4, <2>5, RenderWrite
<1>2. CASE Reload
  <2> DEFINE cs1 == LoadRows(calls, query)
             cs2 == LoadSchema(cs1, query)
             cs  == LoadTables(cs2, query)
  <2>1. Render(cs, query, view, {}) /\ UNCHANGED <<inspecting, grid, schemaOf>>
    BY <1>2 DEF Reload
  <2>2. trouble = {}
    BY <2>1 DEF Render
  <2>3. Good(cs1) /\ Aimed(cs1) /\ calls \subseteq cs1
    BY <2>2, LoadGood, LoadAimed, LoadMore DEF WriteInv
  <2> HIDE DEF cs1
  <2>4. Good(cs2) /\ Aimed(cs2) /\ cs1 \subseteq cs2
    BY <2>3, LoadGood, LoadAimed, LoadMore
  <2> HIDE DEF cs2
  <2>5. Good(cs) /\ Aimed(cs) /\ cs2 \subseteq cs
    BY <2>4, LoadGood, LoadAimed, LoadMore
  <2> HIDE DEF cs
  <2>6. Of(calls, "rows") \subseteq cs
    BY <2>3, <2>4, <2>5 DEF Of
  <2> QED BY <2>1, <2>5, <2>6, RenderWrite
<1> QED BY <1>1, <1>2

\* A row the page names now is of the selected table, by its key.
LEMMA IdentNamed ==
  ASSUME TypeInv, Faced, Visible, Hasty = {}, NEW k \in Keys
  PROVE  Named(Ident(k))
<1>1. schemaOf = query.table /\ query.table # None /\ grid.of.table = query.table
  BY DEF Hasty, Visible, InGrid, Faced
<1>2. Pk = PkOf[query.table]
  BY <1>1 DEF Pk
<1>3. Ident(k).col = Pk /\ Ident(k).from = grid.of.table
  BY DEF Ident
<1> QED BY <1>1, <1>2, <1>3 DEF Named

LEMMA CellWrite ==
  ASSUME StudioConstants, TypeInv, WriteInv, trouble' = {},
         \/ TickAll \/ CloseInspector \/ CancelEdit
         \/ \E k \in Keys : Tick(k) \/ EditCell(k)
  PROVE  WriteInv'
<1>1. /\ UNCHANGED <<query, view, schemaOf, grid, loadingRows, calls>>
      /\ trouble = {}
  BY DEF TickAll, CloseInspector, CancelEdit, Tick, EditCell
<1>2. Own(calls', query'.table) /\ Aimed(calls') /\ Faced
  BY <1>1 DEF WriteInv, Own, Aimed
<1>3. query.table # None =>
        /\ \A r \in ticked : Named(r)
        /\ editing # None => Named(editing)
        /\ inspecting # None => Named(inspecting)
  BY <1>2 DEF Faced
<1>4. query.table # None =>
        /\ \A r \in ticked' : Named(r)
        /\ editing' # None => Named(editing')
        /\ inspecting' # None => Named(inspecting')
  <2>1. ASSUME NEW k \in Keys, Tick(k) PROVE Named(Ident(k)) /\ ticked' \subseteq ticked \union {Ident(k)} /\ UNCHANGED <<editing, inspecting>>
    <3>1. Visible /\ Hasty = {}
      BY <2>1 DEF Tick
    <3>2. Named(Ident(k))
      BY <1>2, <3>1, IdentNamed
    <3> QED BY <2>1, <3>2 DEF Tick
  <2>2. ASSUME NEW k \in Keys, EditCell(k) PROVE Named(Ident(k)) /\ editing' \in {editing, Ident(k)} /\ inspecting' \in {inspecting, Ident(k)} /\ UNCHANGED ticked
    <3>1. Visible /\ Hasty = {}
      BY <2>2 DEF EditCell
    <3>2. Named(Ident(k))
      BY <1>2, <3>1, IdentNamed
    <3> QED BY <2>2, <3>2 DEF EditCell
  <2>3. ASSUME TickAll PROVE (\A r \in ticked' : Named(r)) /\ UNCHANGED <<editing, inspecting>>
    <3>1. Visible /\ Hasty = {}
      BY <2>3 DEF TickAll
    <3>2. grid.keys \subseteq Keys
      OBVIOUS
    <3>3. \A k \in grid.keys : Named(Ident(k))
      BY <1>2, <3>1, <3>2, IdentNamed
    <3> QED BY <2>3, <3>3 DEF TickAll
  <2>4. ASSUME CloseInspector \/ CancelEdit
        PROVE  /\ editing' \in {None, editing, inspecting} /\ inspecting' \in {None, inspecting}
               /\ UNCHANGED ticked
    BY <2>4 DEF CloseInspector, CancelEdit
  <2> HIDE DEF TypeInv, TypeOK
  <2>5. CASE \E k \in Keys : Tick(k)
    BY <1>3, <2>1, <2>5
  <2>6. CASE \E k \in Keys : EditCell(k)
    BY <1>3, <2>2, <2>6
  <2>7. CASE TickAll
    BY <1>3, <2>3, <2>7
  <2>8. CASE CloseInspector \/ CancelEdit
    BY <1>3, <2>4, <2>8
  <2> QED BY <2>5, <2>6, <2>7, <2>8
<1>5. Faced'
  BY <1>1, <1>2, <1>4 DEF Faced, Named
<1> QED BY <1>2, <1>5 DEF WriteInv

LEMMA SendWrite ==
  ASSUME StudioConstants, TypeInv, WriteInv, trouble' = {},
         \/ DeleteSelected \/ InsertRow \/ SaveCell \/ RunSql
         \/ \E t \in Tables : CreateTable(t)
  PROVE  WriteInv'
<1>1. /\ UNCHANGED <<query, view, schemaOf, grid, ticked, editing, inspecting, loadingRows>>
      /\ trouble = {}
  BY DEF DeleteSelected, InsertRow, SaveCell, RunSql, CreateTable, Write
<1>2. Own(calls, query.table) /\ Aimed(calls) /\ Faced
  BY <1>1 DEF WriteInv
<1>3. ASSUME NEW d, calls' = calls \union {d}, d.kind \notin {"rows", "schema"},
             d.kind \in {"delete", "update"} =>
               \A r \in d.rows : r.from = d.target /\ r.col = PkOf[d.target] /\ d.pk = r.col
      PROVE  WriteInv'
  <2>1. Own(calls', query'.table) /\ Aimed(calls')
    BY <1>1, <1>2, <1>3 DEF Own, Aimed
  <2>2. Faced'
    BY <1>1, <1>2 DEF Faced, Named
  <2> QED BY <2>1, <2>2 DEF WriteInv
<1>4. ASSUME NEW kind \in {"delete", "update"}, NEW rows, rows # {}, \A r \in rows : Named(r),
             query.table # None, Write(kind, rows)
      PROVE  WriteInv'
  <2> DEFINE d == NewCall(calls, kind, query, query.table, rows)
  <2>1. calls' = calls \union {d}
    BY <1>4 DEF Write, Send
  <2>2. d.kind = kind /\ d.target = query.table /\ d.rows = rows /\ d.pk = Pk
    BY NewCallFields
  <2> HIDE DEF d
  <2>3. Pk = PkOf[query.table]
    BY <1>4 DEF Named, Pk
  <2>4. \A r \in d.rows : r.from = d.target /\ r.col = PkOf[d.target] /\ d.pk = r.col
    BY <1>4, <2>2, <2>3 DEF Named
  <2> QED BY <1>3, <2>1, <2>2, <2>4
<1>5. CASE DeleteSelected
  <2>1. query.table # None /\ ticked # {} /\ Write("delete", ticked)
    BY <1>5 DEF DeleteSelected, InGrid
  <2>2. \A r \in ticked : Named(r)
    BY <1>2, <2>1 DEF Faced
  <2> QED BY <1>4, <2>1, <2>2
<1>6. CASE SaveCell
  <2>1. query.table # None /\ editing # None /\ Write("update", {editing})
    BY <1>6 DEF SaveCell, Visible, InGrid
  <2>2. \A r \in {editing} : Named(r)
    BY <1>2, <2>1 DEF Faced
  <2> QED BY <1>4, <2>1, <2>2
<1>7. CASE InsertRow
  <2> DEFINE d == NewCall(calls, "insert", query, query.table, {})
  <2>1. calls' = calls \union {d} /\ d.kind = "insert"
    BY <1>7, NewCallFields DEF InsertRow, Write, Send
  <2> HIDE DEF d
  <2> QED BY <1>3, <2>1
<1>8. CASE RunSql
  <2> DEFINE d == NewCall(calls, "sql", query, query.table, {})
  <2>1. calls' = calls \union {d} /\ d.kind = "sql"
    BY <1>8, NewCallFields DEF RunSql, Send
  <2> HIDE DEF d
  <2> QED BY <1>3, <2>1
<1>9. ASSUME NEW t \in Tables, CreateTable(t) PROVE WriteInv'
  <2> DEFINE d == NewCall(calls, "create", query, t, {})
  <2>1. calls' = calls \union {d} /\ d.kind = "create"
    BY <1>9, NewCallFields DEF CreateTable
  <2> HIDE DEF d
  <2> QED BY <1>3, <2>1
<1> QED BY <1>5, <1>6, <1>7, <1>8, <1>9

LEMMA UserWrite ==
  ASSUME StudioConstants, TypeInv, WriteInv, User
  PROVE  WriteInv'
<1> SUFFICES ASSUME trouble' = {} PROVE WriteInv'
  BY DEF WriteInv
<1>1. ASSUME NEW t \in Tables, SelectTable(t) PROVE WriteInv'
  <2>1. [query EXCEPT !.table = t] \in Queries
    BY DEF Queries
  <2> QED BY <1>1, <2>1, AskWrite DEF SelectTable
<1>2. CASE TurnPage
  <2>1. PICK p \in Neighbours : Ask([query EXCEPT !.page = p], view)
    BY <1>2 DEF TurnPage
  <2>2. p \in Nat
    BY DEF Neighbours, Queries
  <2>3. [query EXCEPT !.page = p] \in Queries
    BY <2>2 DEF Queries
  <2> QED BY <2>1, <2>3, AskWrite
<1>3. ASSUME NEW s \in PageSizes, Resize(s) PROVE WriteInv'
  <2> DEFINE sized == [query EXCEPT !.size = s]
             q     == [query EXCEPT !.size = s, !.page = 1]
  <2>1. sized \in Queries
    BY DEF Queries
  <2>2. q = [sized EXCEPT !.page = 1]
    BY DEF Queries
  <2> HIDE DEF sized
  <2>3. q \in Queries /\ Ask(q, view)
    BY <1>3, <2>1, <2>2 DEF Resize, Queries
  <2> HIDE DEF q
  <2> QED BY <2>3, AskWrite
<1>4. ASSUME NEW c \in Columns, SortBy(c) PROVE WriteInv'
  <2>1. NextSort(c) \in Sorts
    BY DEF NextSort, Sorts
  <2>2. [query EXCEPT !.sort = NextSort(c)] \in Queries
    BY <2>1 DEF Queries
  <2> QED BY <1>4, <2>2, AskWrite DEF SortBy
<1>5. ASSUME NEW c \in Columns, FilterBy(c) PROVE WriteInv'
  <2>1. [query EXCEPT !.filters = @ \union {c}] \in Queries
    BY DEF Queries
  <2> QED BY <1>5, <2>1, AskWrite DEF FilterBy
<1>6. ASSUME NEW cs \in SUBSET Columns, DropFilters(cs) PROVE WriteInv'
  <2>1. [query EXCEPT !.filters = @ \ cs] \in Queries
    BY DEF Queries
  <2> QED BY <1>6, <2>1, AskWrite DEF DropFilters
<1>7. ASSUME NEW v \in Views, ChangeView(v) PROVE WriteInv'
  BY <1>7, AskWrite DEF ChangeView
<1> QED BY <1>1, <1>2, <1>3, <1>4, <1>5, <1>6, <1>7, LoadsWrite, CellWrite, SendWrite DEF User

LEMMA ServeWrite ==
  ASSUME StudioConstants, TypeInv, WriteInv, NEW c \in calls, Serve(c)
  PROVE  WriteInv'
<1> SUFFICES ASSUME trouble' = {} PROVE WriteInv'
  BY DEF WriteInv
<1>1. UNCHANGED <<query, view, schemaOf, grid, ticked, editing, inspecting, loadingRows, trouble>>
  BY DEF Serve
<1>2. Own(calls, query.table) /\ Aimed(calls) /\ Faced
  BY <1>1 DEF WriteInv
<1>3. PICK d : /\ calls' = (calls \ {c}) \union {d}
               /\ d.kind = c.kind /\ d.target = c.target /\ d.rows = c.rows /\ d.pk = c.pk
  <2> DEFINE refused   == [c EXCEPT !.state = "refused"]
             served(g) == Served(c, g)
  <2>1. c \in Call
    BY DEF Good
  <2>2. refused.kind = c.kind /\ refused.target = c.target /\ refused.rows = c.rows /\ refused.pk = c.pk
    BY <2>1 DEF Call
  <2>3. \A g : served(g).kind = c.kind /\ served(g).target = c.target /\ served(g).rows = c.rows /\ served(g).pk = c.pk
    BY <2>1 DEF Served, Call
  <2>4. calls' = (calls \ {c}) \union {refused} \/ \E g : calls' = (calls \ {c}) \union {served(g)}
    BY DEF Serve
  <2> HIDE DEF refused, served
  <2> QED BY <2>2, <2>3, <2>4
<1>4. Own(calls', query'.table)
  BY <1>1, <1>2, <1>3 DEF Own
<1>5. Aimed(calls')
  BY <1>2, <1>3 DEF Aimed
<1>6. Faced'
  BY <1>1, <1>2 DEF Faced, Named
<1> QED BY <1>4, <1>5, <1>6 DEF WriteInv

LEMMA AnswerWrite ==
  ASSUME StudioConstants, TypeInv, WriteInv, NEW c \in calls,
         \/ GotRows(c) \/ GotSchema(c) \/ GotTables(c) \/ GotWrite(c)
         \/ GotTable(c) \/ GotSql(c) \/ Fails(c)
  PROVE  WriteInv'
<1> SUFFICES ASSUME trouble' = {} PROVE WriteInv'
  BY DEF WriteInv
<1>1. c \in Call /\ WellSent(c) /\ Good(Rest(c))
  BY RestGood DEF Good
<1>2. trouble = {} => /\ Own(calls, query.table) /\ Aimed(calls) /\ Faced
                      /\ Own(Rest(c), query.table) /\ Aimed(Rest(c))
  BY RestOwn, RestAimed DEF WriteInv
<1>3. CASE GotRows(c)
  <2>1. /\ trouble = {} /\ calls' = Rest(c) /\ grid'.of = c.query
        /\ UNCHANGED <<query, view, schemaOf, ticked, editing, inspecting>>
    BY <1>3 DEF GotRows
  <2>2. c.query.table = query.table
    BY <1>1, <1>2, <1>3, <2>1 DEF WellSent, Own, GotRows
  <2>3. Faced'
    BY <1>2, <2>1, <2>2 DEF Faced, Named
  <2>4. Own(calls', query'.table) /\ Aimed(calls')
    BY <1>2, <2>1
  <2> QED BY <2>3, <2>4 DEF WriteInv
<1>4. CASE GotSchema(c)
  <2>1. /\ trouble = {} /\ calls' = Rest(c) /\ schemaOf' = c.target
        /\ UNCHANGED <<query, view, grid, ticked, editing, inspecting, loadingRows>>
    BY <1>4 DEF GotSchema
  <2>2. c.target = query.table
    BY <1>2, <1>4, <2>1 DEF Own, GotSchema
  <2>3. Faced'
    BY <1>2, <2>1, <2>2 DEF Faced, Named
  <2>4. Own(calls', query'.table) /\ Aimed(calls')
    BY <1>2, <2>1
  <2> QED BY <2>3, <2>4 DEF WriteInv
<1>5. CASE GotTables(c)
  <2> DEFINE t == IF c.got = {} THEN None
                  ELSE IF c.query.table \notin c.got THEN First(c.got) ELSE query.table
             q == [query EXCEPT !.table = t]
  <2>1. /\ Render(Rest(c), q, view, Odd(c)) /\ UNCHANGED inspecting
        /\ grid' = IF t = None THEN [grid EXCEPT !.keys = {}] ELSE grid
        /\ schemaOf' = IF t = None THEN None ELSE schemaOf
        /\ c.kind = "tables"
    BY <1>5 DEF GotTables
  <2>2. t \in Tables \union {None}
    <3>1. c.got \subseteq Tables
      BY <1>1, <2>1 DEF WellSent
    <3>2. c.got # {} => First(c.got) \in Tables
      BY <3>1 DEF First, StudioConstants
    <3> QED BY <3>2 DEF Queries
  <2> HIDE DEF t
  <2>3. q \in Queries /\ q.table = t
    BY <2>2 DEF Queries
  <2>4. trouble = {}
    BY <2>1 DEF Render
  <2>5. Of(calls, "rows") \subseteq Rest(c)
    BY <2>1, RestOf DEF Of
  <2>6. q.table # None => grid' = grid /\ schemaOf' = schemaOf
    BY <2>1, <2>3
  <2> HIDE DEF q
  <2> QED BY <1>1, <1>2, <2>1, <2>3, <2>4, <2>5, <2>6, RenderWrite
<1>6. CASE GotWrite(c)
  <2> DEFINE cs1 == LoadRows(Rest(c), c.query)
             cs  == LoadTables(cs1, c.query)
  <2>1. /\ calls' = cs /\ trouble = {} /\ Mixed(cs, query) = {}
        /\ ticked' = IF c.kind = "delete" THEN {} ELSE ticked
        /\ loadingRows' = (loadingRows \/ Of(cs, "rows") \ Of(calls, "rows") # {})
        /\ UNCHANGED <<query, view, schemaOf, grid, editing, inspecting>>
    BY <1>6 DEF GotWrite, Reloaded
  <2>2. Aimed(cs1)
    BY <1>2, <2>1, LoadAimed
  <2>3. Aimed(cs)
    BY <2>2, LoadAimed
  <2> HIDE DEF cs1, cs
  <2>4. Own(cs, query.table)
    BY <2>1, UnmixedOwn
  <2>5. ~loadingRows' => ~loadingRows
    BY <2>1
  <2>6. ticked' \subseteq ticked
    BY <2>1
  <2>7. Faced'
    BY <1>2, <2>1, <2>5, <2>6 DEF Faced, Named
  <2> QED BY <2>1, <2>3, <2>4, <2>7 DEF WriteInv
<1>7. CASE GotTable(c)
  <2> DEFINE cs == LoadTables(Rest(c), c.query)
             q  == [query EXCEPT !.table = c.target]
  <2>1. /\ Render(cs, q, view, Odd(c)) /\ UNCHANGED <<inspecting, grid, schemaOf>>
        /\ c.kind = "create"
    BY <1>7 DEF GotTable
  <2>2. q \in Queries
    BY <1>1, <2>1 DEF WellSent, Queries
  <2>3. trouble = {}
    BY <2>1 DEF Render
  <2>4. Aimed(cs) /\ Rest(c) \subseteq cs
    BY <1>2, <2>3, LoadAimed, LoadMore
  <2>5. Good(cs)
    BY <1>1, LoadGood DEF Call
  <2> HIDE DEF cs, q
  <2>6. Of(calls, "rows") \subseteq Rest(c)
    BY <2>1, RestOf DEF Of
  <2>7. Of(calls, "rows") \subseteq cs
    BY <2>4, <2>6
  <2> QED BY <2>1, <2>2, <2>4, <2>5, <2>7, RenderWrite
<1>8. CASE GotSql(c)
  <2>1. /\ trouble = {} /\ calls' = Rest(c)
        /\ UNCHANGED <<query, view, schemaOf, grid, ticked, editing, inspecting, loadingRows>>
    BY <1>8 DEF GotSql
  <2>2. Faced'
    BY <1>2, <2>1 DEF Faced, Named
  <2>3. Own(calls', query'.table) /\ Aimed(calls')
    BY <1>2, <2>1
  <2> QED BY <2>2, <2>3 DEF WriteInv
<1>9. CASE Fails(c)
  BY <1>9 DEF Fails
<1> QED BY <1>3, <1>4, <1>5, <1>6, <1>7, <1>8, <1>9

LEMMA InitWrite ==
  ASSUME StudioConstants, Init
  PROVE  WriteInv
<1> DEFINE d == NewCall({}, "tables", Blank, Blank.table, {})
<1>1. calls = {d}
  BY DEF Init, LoadTables, Send
<1>2. d.kind = "tables"
  BY NewCallFields
<1> HIDE DEF d
<1>3. query.table = None
  BY DEF Init, Blank
<1> QED BY <1>1, <1>2, <1>3 DEF WriteInv, Own, Aimed, Faced

LEMMA StepWrite ==
  ASSUME StudioConstants, TypeInv, WriteInv, [Next]_vars
  PROVE  WriteInv'
<1>1. CASE User
  BY <1>1, UserWrite
<1>2. CASE Answer
  BY <1>2, AnswerWrite DEF Answer
<1>3. ASSUME NEW c \in calls, Serve(c) PROVE WriteInv'
  BY <1>3, ServeWrite
<1>4. CASE UNCHANGED vars
  BY <1>4 DEF vars, WriteInv, Own, Aimed, Faced, Named
<1> QED BY <1>1, <1>2, <1>3, <1>4 DEF Next

\* As long as nothing went out of the ordinary, the studio deletes and saves by rows it
\* showed of the table it writes to, named by that table's key: for any tables and keys,
\* and however many requests of that table are under way at once.
THEOREM WritesCorrect ==
  ASSUME StudioConstants
  PROVE  Spec => []WritesHitWhatWasShown
<1>1. Init => TypeInv /\ WriteInv
  BY InitType, InitWrite
<1>2. TypeInv /\ WriteInv /\ [Next]_vars => (TypeInv /\ WriteInv)'
  BY StepType, StepWrite
<1>3. TypeInv /\ WriteInv => WritesHitWhatWasShown
  BY DEF WriteInv, Aimed, WritesHitWhatWasShown
<1> QED BY <1>1, <1>2, <1>3, PTL DEF Spec

----------------------------------------------------------------------------
(* What the grid settles on.  As long as nothing went out of the ordinary,  *)
(* the newest load that no later one has overtaken is for the query; what   *)
(* it was answered, or what the grid holds once no such load is left, is    *)
(* what the agent stores -- or the answer of a write is still to come, and  *)
(* that loads the rows again (the console instead makes the user leave its  *)
(* tab, which does).                                                        *)

Newest(cs, c) == /\ c \in cs /\ c.kind = "rows" /\ ~c.late
                 /\ \A d \in cs : d.kind = "rows" => d = c \/ d.n < c.n

Current(q, ks) == q.table \in existing /\ ks \in Pages(q, stored[q.table])

Unseen(cs) == \E d \in cs : d.state = "served" /\ d.kind \in {"insert", "delete", "sql"}

Awaited(cs, q) == \E c \in cs : /\ Newest(cs, c) /\ c.query = q
                                /\ c.state = "served" => Current(q, c.got) \/ Unseen(cs)

Shown(cs, q) == /\ \A c \in cs : c.kind = "rows" => c.late
                /\ grid.of = q
                /\ Current(q, grid.keys) \/ Unseen(cs)

Known(cs, t) == schemaOf = t \/ \E c \in cs : c.kind = "schema"

SettleInv == trouble = {} =>
  /\ query.table # None => Known(calls, query.table)
  /\ view = DataGrid /\ query.table # None => Awaited(calls, query) \/ Shown(calls, query)

LEMMA NewCallFresh ==
  ASSUME NEW cs, NEW kind, NEW q, NEW target, NEW rows
  PROVE  LET d == NewCall(cs, kind, q, target, rows)
         IN  ~d.late /\ d.state = "sent" /\ d.n = Last(cs, kind) + 1
BY DEF NewCall

\* A load just sent is the newest.
LEMMA LoadAwaited ==
  ASSUME NEW cs, Good(cs), NEW q, q.table # None
  PROVE  Awaited(LoadRows(cs, q), q)
<1> DEFINE d == NewCall(cs, "rows", q, q.table, {})
           ds == cs \union {d}
<1>1. LoadRows(cs, q) = ds
  BY DEF LoadRows, Send
<1>2. d.kind = "rows" /\ d.query = q /\ ~d.late /\ d.state = "sent" /\ d.n = Last(cs, "rows") + 1
  BY NewCallFields, NewCallFresh
<1>3. Last(cs, "rows") \in Nat /\ \A c \in cs : c.kind = "rows" => c.n <= Last(cs, "rows")
  BY LastType
<1>4. \A c \in cs : c.n \in Nat
  BY DEF Good, Call
<1> HIDE DEF d
<1>5. \A c \in cs : c.kind = "rows" => c.n < d.n
  BY <1>2, <1>3, <1>4
<1>6. Newest(ds, d)
  BY <1>2, <1>5 DEF Newest
<1> QED BY <1>1, <1>2, <1>6 DEF Awaited

\* Other requests neither overtake a load nor hide a write.
LEMMA MoreAwaited ==
  ASSUME NEW cs, NEW ds, cs \subseteq ds, \A d \in ds : d.kind = "rows" => d \in cs, NEW q
  PROVE  /\ Awaited(cs, q) => Awaited(ds, q)
         /\ Shown(cs, q) => Shown(ds, q)
<1>1. Unseen(cs) => Unseen(ds)
  BY DEF Unseen
<1>2. \A c : Newest(cs, c) => Newest(ds, c)
  BY DEF Newest
<1>3. Awaited(cs, q) => Awaited(ds, q)
  BY <1>1, <1>2 DEF Awaited
<1>4. Shown(cs, q) => Shown(ds, q)
  BY <1>1 DEF Shown
<1> QED BY <1>3, <1>4

LEMMA LoadOther ==
  ASSUME NEW cs, NEW q, NEW p
  PROVE  /\ Awaited(cs, p) => Awaited(LoadSchema(cs, q), p) /\ Awaited(LoadTables(cs, q), p)
         /\ Shown(cs, p) => Shown(LoadSchema(cs, q), p) /\ Shown(LoadTables(cs, q), p)
<1>1. \A d \in LoadSchema(cs, q) : d.kind = "rows" => d \in cs
  BY NewCallFields DEF LoadSchema, Send
<1>2. \A d \in LoadTables(cs, q) : d.kind = "rows" => d \in cs
  BY NewCallFields DEF LoadTables, Send
<1> QED BY <1>1, <1>2, LoadMore, MoreAwaited

LEMMA MoreKnown ==
  ASSUME NEW cs, NEW ds, cs \subseteq ds, NEW t, Known(cs, t)
  PROVE  Known(ds, t)
BY DEF Known

LEMMA SchemaKnown ==
  ASSUME NEW cs, NEW q, q.table # None, NEW t
  PROVE  Known(LoadSchema(cs, q), t)
BY NewCallFields DEF Known, LoadSchema, Send

LEMMA RenderSettle ==
  ASSUME StudioConstants, TypeInv, NEW cs, Good(cs), NEW q \in Queries, NEW v, NEW odd,
         Render(cs, q, v, odd), UNCHANGED <<existing, stored>>,
         q.table # None => grid' = grid /\ schemaOf' = schemaOf,
         q.table # None /\ q.table = query.table => Known(cs, q.table),
         v = DataGrid /\ q.table # None /\ <<q, v>> = <<query, view>> =>
           Awaited(cs, q) \/ Shown(cs, q)
  PROVE  SettleInv'
<1> DEFINE moved  == q.table # query.table /\ q.table # None
           first  == IF moved THEN [q EXCEPT !.page = 1] ELSE q
           loads  == v = DataGrid /\ q.table # None /\ <<q, v>> # <<query, view>>
           cs1    == IF moved THEN LoadSchema(cs, q) ELSE cs
           cs2    == IF loads THEN LoadRows(cs1, q) ELSE cs1
           cs3    == IF loads /\ first # q THEN LoadRows(cs2, first) ELSE cs2
<1>1. query' = first /\ view' = v /\ calls' = cs3
  BY DEF Render
<1>2. first.table = q.table /\ first \in Queries /\ (~moved => first = q)
  BY DEF Queries
<1>3. moved <=> q.table # query.table /\ q.table # None
  OBVIOUS
<1>4. loads <=> v = DataGrid /\ q.table # None /\ <<q, v>> # <<query, view>>
  OBVIOUS
<1> HIDE DEF moved, first, loads
<1>5. Good(cs1) /\ cs \subseteq cs1
  BY LoadGood, LoadMore
<1>6. q.table # None => Known(cs1, q.table)
  BY <1>3, SchemaKnown
<1>7. ~moved => cs1 = cs
  OBVIOUS
<1> HIDE DEF cs1
<1>8. Good(cs2) /\ cs1 \subseteq cs2 /\ (loads => Awaited(cs2, q)) /\ (~loads => cs2 = cs1)
  BY <1>4, <1>5, LoadGood, LoadMore, LoadAwaited
<1> HIDE DEF cs2
<1>9. cs2 \subseteq cs3 /\ (loads => Awaited(cs3, first)) /\ (~loads => cs3 = cs2)
  BY <1>2, <1>4, <1>8, LoadMore, LoadAwaited
<1> HIDE DEF cs3
<1>10. q.table # None => Known(cs3, q.table)
  BY <1>6, <1>8, <1>9, MoreKnown
<1>11. v = DataGrid /\ q.table # None => Awaited(cs3, first) \/ Shown(cs3, first)
  <2>1. CASE loads
    BY <1>9, <2>1
  <2>2. CASE ~loads
    BY <1>2, <1>3, <1>4, <1>7, <1>8, <1>9, <2>2
  <2> QED BY <2>1, <2>2
<1>12. q.table # None =>
         /\ Known(cs3, q.table) => Known(calls, query.table)'
         /\ Awaited(cs3, first) => Awaited(calls, query)'
         /\ Shown(cs3, first) => Shown(calls, query)'
  BY <1>1, <1>2 DEF Known, Awaited, Shown, Current
<1> QED BY <1>1, <1>2, <1>10, <1>11, <1>12 DEF SettleInv

\* Without an answer for the rows, nothing changes for them.
LEMMA RestSettle ==
  ASSUME Good(calls), NEW c \in calls, NEW t, NEW q
  PROVE  /\ c.kind # "schema" /\ Known(calls, t) => Known(Rest(c), t)
         /\ c.kind \notin {"rows", "insert", "delete", "sql"} =>
              /\ Awaited(calls, q) => Awaited(Rest(c), q)
              /\ Shown(calls, q) => Shown(Rest(c), q)
<1>1. ASSUME NEW d \in calls, d.kind # c.kind PROVE d \in Rest(c)
  BY <1>1 DEF Rest
<1>2. \A e \in Rest(c) : \E d \in calls \ {c} : e.kind = d.kind /\ (d.kind # c.kind => e = d)
  BY RestLike
<1>3. c.kind # "schema" /\ Known(calls, t) => Known(Rest(c), t)
  BY <1>1 DEF Known
<1>4. ASSUME c.kind \notin {"rows", "insert", "delete", "sql"}
      PROVE  /\ Awaited(calls, q) => Awaited(Rest(c), q)
             /\ Shown(calls, q) => Shown(Rest(c), q)
  <2>1. Unseen(calls) => Unseen(Rest(c))
    BY <1>1, <1>4 DEF Unseen
  <2>2. \A e \in Rest(c) : e.kind = "rows" => e \in calls
    BY <1>2, <1>4
  <2>3. \A d : Newest(calls, d) => Newest(Rest(c), d)
    <3> SUFFICES ASSUME NEW d, Newest(calls, d) PROVE Newest(Rest(c), d)
      OBVIOUS
    <3>1. d \in Rest(c)
      BY <1>1, <1>4 DEF Newest
    <3> QED BY <2>2, <3>1 DEF Newest
  <2>4. Awaited(calls, q) => Awaited(Rest(c), q)
    BY <2>1, <2>3 DEF Awaited, Newest
  <2>5. Shown(calls, q) => Shown(Rest(c), q)
    BY <2>1, <2>2 DEF Shown
  <2> QED BY <2>4, <2>5
<1> QED BY <1>3, <1>4

\* The answer of the newest load makes every other load late; that of an older one leaves
\* the newest.
LEMMA GotRowsSettle ==
  ASSUME StudioConstants, TypeInv, WriteInv, SettleInv, NEW c \in calls, GotRows(c), trouble' = {}
  PROVE  SettleInv'
<1>1. /\ c.kind = "rows" /\ c.state = "served" /\ calls' = Rest(c) /\ grid'.of = c.query
      /\ grid'.keys = c.got /\ UNCHANGED <<query, view, schemaOf, existing, stored>>
  BY DEF GotRows, Agent
<1>2. trouble = {} /\ ~c.late
  BY DEF GotRows, Odd
<1>3. query.table # None => Known(calls, query.table)'
  <2>1. query.table # None => Known(Rest(c), query.table)
    BY <1>1, <1>2, RestSettle DEF SettleInv
  <2> QED BY <1>1, <2>1 DEF Known
<1>4. ASSUME view = DataGrid, query.table # None
      PROVE  Awaited(calls, query)' \/ Shown(calls, query)'
  <2>1. PICK n : /\ Newest(calls, n) /\ n.query = query
                 /\ n.state = "served" => Current(query, n.got) \/ Unseen(calls)
    <3>1. Awaited(calls, query)
      BY <1>1, <1>2, <1>4 DEF SettleInv, Shown
    <3> QED BY <3>1 DEF Awaited
  <2>2. Unseen(calls) => Unseen(Rest(c))
    <3>1. \A d \in calls : d.kind # c.kind => d \in Rest(c)
      BY DEF Rest
    <3> QED BY <1>1, <3>1 DEF Unseen
  <2> DEFINE r(d) == IF d.kind = c.kind /\ d.n < c.n THEN [d EXCEPT !.late = TRUE] ELSE d
  <2>3. Rest(c) = {r(d) : d \in calls \ {c}}
    BY DEF Rest
  <2>4. \A d \in calls : r(d).kind = d.kind /\ r(d).n = d.n
    <3> SUFFICES ASSUME NEW d \in calls PROVE r(d).kind = d.kind /\ r(d).n = d.n
      OBVIOUS
    <3> DEFINE e == [d EXCEPT !.late = TRUE]
    <3>1. d \in Call
      BY DEF Good
    <3>2. e.kind = d.kind /\ e.n = d.n
      BY <3>1 DEF Call
    <3> HIDE DEF e
    <3> QED BY <3>2 DEF e
  <2>5. \A d \in calls : d.kind = "rows" /\ d.n < c.n => r(d).late
    <3> SUFFICES ASSUME NEW d \in calls, d.kind = "rows", d.n < c.n PROVE r(d).late
      OBVIOUS
    <3>1. d \in Call /\ r(d) = [d EXCEPT !.late = TRUE]
      BY <1>1 DEF Good
    <3> QED BY <3>1 DEF Call
  <2>6. CASE n = c
    <3>1. \A e \in Rest(c) : e.kind = "rows" => e.late
      <4> SUFFICES ASSUME NEW d \in calls \ {c}, r(d).kind = "rows" PROVE r(d).late
        BY <2>3
      <4>1. d.kind = "rows"
        BY <2>4
      <4>2. d.n < c.n
        BY <2>1, <2>6, <4>1 DEF Newest
      <4> HIDE DEF r
      <4> QED BY <2>5, <4>1, <4>2
    <3> HIDE DEF r
    <3>2. c.query = query /\ (Current(query, c.got) \/ Unseen(Rest(c)))
      BY <1>1, <2>1, <2>2, <2>6
    <3>3. Current(query, c.got) => Current(query, grid.keys)'
      BY <1>1 DEF Current
    <3>4. Unseen(Rest(c)) => Unseen(calls)'
      BY <1>1 DEF Unseen
    <3>5. grid'.of = query'
      BY <1>1, <3>2
    <3>6. Shown(calls, query)'
      BY <1>1, <3>1, <3>2, <3>3, <3>4, <3>5 DEF Shown
    <3> QED BY <3>6
  <2>7. CASE n # c
    <3>1. n \in calls /\ n.kind = "rows" /\ c.n < n.n /\ c.n \in Nat /\ n.n \in Nat
      BY <1>1, <2>1, <2>7 DEF Newest, Good, Call
    <3>2. r(n) = n
      BY <3>1
    <3>3. n \in Rest(c)
      BY <2>3, <2>7, <3>1, <3>2
    <3> HIDE DEF r
    <3>4. Newest(Rest(c), n)
      <4> SUFFICES ASSUME NEW d \in calls \ {c}, r(d).kind = "rows"
                   PROVE  r(d) = n \/ r(d).n < n.n
        BY <2>1, <2>3, <3>3 DEF Newest
      <4>1. d.kind = "rows" /\ r(d).n = d.n
        BY <2>4
      <4>2. d = n \/ d.n < n.n
        BY <2>1, <4>1 DEF Newest
      <4> QED BY <3>2, <4>1, <4>2
    <3>5. Newest(calls, n)'
      BY <1>1, <3>4 DEF Newest
    <3>6. n.query = query'
      BY <1>1, <2>1
    <3>7. n.state = "served" => Current(query, n.got)' \/ Unseen(calls)'
      BY <1>1, <2>1, <2>2 DEF Current, Unseen
    <3>8. Awaited(calls, query)'
      BY <3>3, <3>5, <3>6, <3>7, <1>1 DEF Awaited
    <3> QED BY <3>8
  <2> QED BY <2>6, <2>7
<1> QED BY <1>1, <1>3, <1>4 DEF SettleInv

LEMMA AnswerSettle ==
  ASSUME StudioConstants, TypeInv, WriteInv, SettleInv, NEW c \in calls, trouble' = {},
         \/ GotSchema(c) \/ GotTables(c) \/ GotWrite(c) \/ GotTable(c) \/ GotSql(c) \/ Fails(c)
  PROVE  SettleInv'
<1>1. c \in Call /\ WellSent(c) /\ Good(Rest(c))
  BY RestGood DEF Good
<1>2. CASE GotSchema(c)
  <2>1. /\ trouble = {} /\ calls' = Rest(c) /\ schemaOf' = c.target /\ c.kind = "schema"
        /\ UNCHANGED <<existing, stored, query, view, grid>>
    BY <1>2 DEF GotSchema, Agent
  <2>2. c.target = query.table
    BY <2>1 DEF WriteInv, Own
  <2>3. Known(calls, query.table)'
    BY <2>1, <2>2 DEF Known
  <2>4. view = DataGrid /\ query.table # None => Awaited(Rest(c), query) \/ Shown(Rest(c), query)
    BY <2>1, RestSettle DEF SettleInv
  <2>5. /\ Awaited(Rest(c), query) => Awaited(calls, query)'
        /\ Shown(Rest(c), query) => Shown(calls, query)'
    BY <2>1 DEF Awaited, Shown, Current
  <2> QED BY <2>1, <2>3, <2>4, <2>5 DEF SettleInv
<1>3. CASE GotTables(c)
  <2> DEFINE t == IF c.got = {} THEN None
                  ELSE IF c.query.table \notin c.got THEN First(c.got) ELSE query.table
             q == [query EXCEPT !.table = t]
  <2>1. /\ Render(Rest(c), q, view, Odd(c)) /\ UNCHANGED <<existing, stored>>
        /\ grid' = IF t = None THEN [grid EXCEPT !.keys = {}] ELSE grid
        /\ schemaOf' = IF t = None THEN None ELSE schemaOf
        /\ c.kind = "tables"
    BY <1>3 DEF GotTables, Agent
  <2>2. t \in Tables \union {None}
    <3>1. c.got \subseteq Tables
      BY <1>1, <2>1 DEF WellSent
    <3>2. c.got # {} => First(c.got) \in Tables
      BY <3>1 DEF First, StudioConstants
    <3> QED BY <3>2 DEF Queries
  <2> HIDE DEF t
  <2>3. q \in Queries /\ q.table = t
    BY <2>2 DEF Queries
  <2>4. trouble = {}
    BY <2>1 DEF Render
  <2>5. q.table # None => grid' = grid /\ schemaOf' = schemaOf
    BY <2>1, <2>3
  <2> HIDE DEF q
  <2>6. q.table # None /\ q.table = query.table => Known(Rest(c), q.table)
    BY <2>1, <2>4, RestSettle DEF SettleInv
  <2>7. view = DataGrid /\ q.table # None /\ <<q, view>> = <<query, view>> =>
          Awaited(Rest(c), q) \/ Shown(Rest(c), q)
    BY <2>1, <2>4, RestSettle DEF SettleInv
  <2> QED BY <1>1, <2>1, <2>3, <2>5, <2>6, <2>7, RenderSettle
<1>4. CASE GotWrite(c)
  <2> DEFINE cs1 == LoadRows(Rest(c), c.query)
             cs  == LoadTables(cs1, c.query)
  <2>1. /\ calls' = cs /\ trouble = {} /\ c.query = query /\ c.kind \in {"insert", "delete"}
        /\ UNCHANGED <<existing, stored, query, view, schemaOf, grid>>
    BY <1>4 DEF GotWrite, Reloaded, Agent
  <2>2. /\ query.table # None => Awaited(cs1, query)
        /\ Rest(c) \subseteq cs1
    BY <1>1, <2>1, LoadAwaited, LoadMore
  <2>3. query.table # None => Awaited(cs, query)
    BY <2>2, LoadOther
  <2>4. query.table # None => Known(cs, query.table)
    <3>1. query.table # None => Known(Rest(c), query.table)
      BY <2>1, RestSettle DEF SettleInv
    <3>2. cs1 \subseteq cs
      BY LoadMore
    <3> HIDE DEF cs1, cs
    <3> QED BY <2>2, <3>1, <3>2, MoreKnown
  <2> HIDE DEF cs1, cs
  <2>5. /\ Awaited(cs, query) => Awaited(calls, query)'
        /\ Known(cs, query.table) => Known(calls, query.table)'
    BY <2>1 DEF Awaited, Current, Known
  <2> QED BY <2>1, <2>3, <2>4, <2>5 DEF SettleInv
<1>5. CASE GotTable(c)
  <2> DEFINE cs == LoadTables(Rest(c), c.query)
             q  == [query EXCEPT !.table = c.target]
  <2>1. /\ Render(cs, q, view, Odd(c)) /\ UNCHANGED <<existing, stored, grid, schemaOf>>
        /\ c.kind = "create"
    BY <1>5 DEF GotTable, Agent
  <2>2. q \in Queries /\ q.table = c.target
    BY <1>1, <2>1 DEF WellSent, Queries
  <2>3. trouble = {}
    BY <2>1 DEF Render
  <2>4. Good(cs) /\ Rest(c) \subseteq cs
    BY <1>1, LoadGood, LoadMore DEF Call
  <2> HIDE DEF q
  <2>5. q.table # None /\ q.table = query.table => Known(cs, q.table)
    <3>1. q.table # None /\ q.table = query.table => Known(Rest(c), q.table)
      BY <2>1, <2>3, RestSettle DEF SettleInv
    <3> HIDE DEF cs
    <3> QED BY <2>4, <3>1, MoreKnown
  <2>6. view = DataGrid /\ q.table # None /\ <<q, view>> = <<query, view>> =>
          Awaited(cs, q) \/ Shown(cs, q)
    <3>1. view = DataGrid /\ q.table # None /\ <<q, view>> = <<query, view>> =>
            Awaited(Rest(c), q) \/ Shown(Rest(c), q)
      BY <2>1, <2>3, RestSettle DEF SettleInv
    <3> QED BY <3>1, LoadOther
  <2> HIDE DEF cs
  <2> QED BY <2>1, <2>2, <2>4, <2>5, <2>6, RenderSettle
<1>6. CASE GotSql(c)
  <2>1. /\ trouble = {} /\ calls' = Rest(c) /\ c.kind = "sql" /\ view # DataGrid
        /\ UNCHANGED <<query, view, schemaOf>>
    BY <1>6 DEF GotSql
  <2>2. query.table # None => Known(Rest(c), query.table)
    BY <2>1, RestSettle DEF SettleInv
  <2>3. Known(Rest(c), query.table) => Known(calls, query.table)'
    BY <2>1 DEF Known
  <2> QED BY <2>1, <2>2, <2>3 DEF SettleInv
<1>7. CASE Fails(c)
  BY <1>7 DEF Fails
<1> QED BY <1>2, <1>3, <1>4, <1>5, <1>6, <1>7

\* What a request does to the rows of the selected table shows in the answer of the newest
\* load, or its own answer is still to be seen.
LEMMA ServeSettle ==
  ASSUME StudioConstants, TypeInv, SettleInv, NEW c \in calls, Serve(c), trouble' = {}
  PROVE  SettleInv'
<1>0. PICK g : ~Rejects(c) => g \in Answers(c) /\ calls' = (calls \ {c}) \union {Served(c, g)}
  BY DEF Serve
<1> DEFINE refused == [c EXCEPT !.state = "refused"]
           served  == Served(c, g)
<1>1. UNCHANGED <<query, view, schemaOf, grid, trouble>> /\ c.kind # "schema" /\ c.state = "sent"
  BY DEF Serve
<1>2. c \in Call /\ WellSent(c)
  BY DEF Good
<1>3. \A d \in {refused, served} : d.kind = c.kind /\ d.query = c.query /\ d.n = c.n /\ d.late = c.late
  <2>1. refused.kind = c.kind /\ refused.query = c.query /\ refused.n = c.n /\ refused.late = c.late
    BY <1>2 DEF Call
  <2>2. served.kind = c.kind /\ served.query = c.query /\ served.n = c.n /\ served.late = c.late
    BY <1>2 DEF Served, Call
  <2> QED BY <2>1, <2>2
<1>4. /\ refused.state = "refused" /\ served.state = "served"
      /\ c.kind = "rows" /\ ~Rejects(c) => served.got \in Pages(c.query, stored[c.target])
  BY <1>0, <1>2 DEF Served, Call, Answers
<1>5. PICK d : /\ calls' = (calls \ {c}) \union {d}
               /\ \/ d = refused /\ UNCHANGED Agent
                  \/ d = served /\ ~Rejects(c) /\ \E e \in Effects(c) : existing' = e[1] /\ stored' = e[2]
  BY <1>0 DEF Serve
<1> HIDE DEF refused, served
<1>6. d.kind = c.kind /\ d.query = c.query /\ d.n = c.n /\ d.late = c.late
  BY <1>3, <1>5
<1>7. query.table # None => Known(calls, query.table)'
  BY <1>1, <1>5 DEF SettleInv, Known
<1>8. Unseen(calls) => Unseen(calls)'
  BY <1>1, <1>5 DEF Unseen
\* The newest load is still the newest.
<1>9. ASSUME NEW n, Newest(calls, n)
      PROVE  /\ n # c => Newest(calls, n)' /\ n \in calls'
             /\ n = c => Newest(calls, d)' /\ d \in calls'
  BY <1>5, <1>6, <1>9 DEF Newest
<1>10. (\A x \in calls : x.kind = "rows" => x.late) => \A x \in calls' : x.kind = "rows" => x.late
  BY <1>5, <1>6
<1>11. ASSUME \A ks : Current(query, ks) => Current(query, ks)' \/ Unseen(calls)',
              view = DataGrid, query.table # None
       PROVE  Awaited(calls, query)' \/ Shown(calls, query)'
  <2>1. CASE Shown(calls, query)
    <3>1. Current(query, grid.keys) => Current(query, grid.keys)' \/ Unseen(calls)'
      BY <1>1, <1>11 DEF Current
    <3> QED BY <1>1, <1>8, <1>10, <2>1, <3>1 DEF Shown
  <2>2. ASSUME NEW n, Newest(calls, n), n.query = query, n # c,
               n.state = "served" => Current(query, n.got) \/ Unseen(calls)
        PROVE  Awaited(calls, query)'
    <3>1. n.state = "served" => Current(query, n.got)' \/ Unseen(calls)'
      BY <1>8, <1>11, <2>2
    <3>2. Newest(calls, n)' /\ n \in calls' /\ n.query = query'
      BY <1>1, <1>9, <2>2
    <3> QED BY <3>1, <3>2 DEF Awaited
  <2>3. ASSUME Newest(calls, c), c.query = query PROVE Awaited(calls, query)'
    <3>1. Newest(calls, d)' /\ d \in calls' /\ d.query = query'
      BY <1>1, <1>6, <1>9, <2>3
    <3>2. d.state = "served" => Current(query, d.got)'
      <4> SUFFICES ASSUME d = served PROVE Current(query, d.got)'
        BY <1>4, <1>5
      <4>1. c.kind = "rows" /\ c.target = query.table
        BY <1>2, <2>3 DEF Newest, WellSent
      <4>2. ~Rejects(c)
        BY <1>4, <1>5
      <4>3. c.target \in existing /\ existing' = existing /\ stored' = stored
        BY <1>4, <1>5, <4>1 DEF Rejects, Effects
      <4> QED BY <1>1, <1>4, <2>3, <4>1, <4>2, <4>3 DEF Current
    <3> QED BY <3>1, <3>2 DEF Awaited
  <2> QED BY <1>1, <1>11, <2>1, <2>2, <2>3 DEF SettleInv, Awaited
<1>12. \A ks : Current(query, ks) => Current(query, ks)' \/ Unseen(calls)'
  <2> SUFFICES ASSUME NEW ks, Current(query, ks) PROVE Current(query, ks)' \/ Unseen(calls)'
    OBVIOUS
  <2>1. CASE d = refused
    BY <1>1, <1>4, <1>5, <2>1 DEF Agent, Current
  <2>2. CASE d = served /\ c.kind \in {"insert", "delete", "sql"}
    BY <1>4, <1>5, <1>6, <2>2 DEF Unseen
  <2>3. CASE d = served /\ c.kind = "create" /\ d # refused
    <3>1. c.target \notin existing /\ c.target \in Tables
      BY <1>2, <1>5, <2>3 DEF Rejects, WellSent
    <3>2. existing' = existing \union {c.target} /\ stored' = [stored EXCEPT ![c.target] = {}]
      BY <1>5, <2>3 DEF Effects
    <3>3. query.table \in existing /\ query.table \in Tables /\ query.table # c.target
      BY <3>1 DEF Current
    <3> QED BY <1>1, <3>2, <3>3 DEF Current
  <2>4. CASE d = served /\ c.kind \notin {"insert", "delete", "sql", "create"} /\ d # refused
    <3>1. existing' = existing /\ stored' = stored
      BY <1>5, <2>4 DEF Effects
    <3> QED BY <1>1, <3>1 DEF Current
  <2> QED BY <1>5, <2>1, <2>2, <2>3, <2>4
<1> QED BY <1>1, <1>7, <1>11, <1>12 DEF SettleInv

LEMMA AskSettle ==
  ASSUME StudioConstants, TypeInv, SettleInv, NEW q \in Queries, NEW v, Ask(q, v), trouble' = {}
  PROVE  SettleInv'
<1>1. Render(calls, q, v, {}) /\ UNCHANGED <<existing, stored, grid, schemaOf>>
  BY DEF Ask, Move, Agent
<1>2. trouble = {}
  BY <1>1 DEF Render
<1>3. q.table # None /\ q.table = query.table => Known(calls, q.table)
  BY <1>2 DEF SettleInv
<1>4. v = DataGrid /\ q.table # None /\ <<q, v>> = <<query, view>> =>
        Awaited(calls, q) \/ Shown(calls, q)
  BY <1>2 DEF SettleInv
<1> QED BY <1>1, <1>3, <1>4, RenderSettle

LEMMA LoadsSettle ==
  ASSUME StudioConstants, TypeInv, SettleInv, SearchRows \/ Reload, trouble' = {}
  PROVE  SettleInv'
<1>1. CASE SearchRows
  <2> DEFINE cs == LoadRows(calls, query)
             q  == [query EXCEPT !.page = 1]
  <2>1. q \in Queries /\ q.table = query.table
    BY DEF Queries
  <2>2. /\ Render(cs, q, view, {}) /\ UNCHANGED <<existing, stored, grid, schemaOf>>
        /\ query.table # None
    BY <1>1 DEF SearchRows, Move, Agent, InGrid
  <2>3. trouble = {}
    BY <2>2 DEF Render
  <2>4. Good(cs) /\ calls \subseteq cs /\ Awaited(cs, query)
    BY <2>2, LoadGood, LoadMore, LoadAwaited
  <2> HIDE DEF cs, q
  <2>5. Known(cs, q.table)
    BY <2>1, <2>2, <2>3, <2>4, MoreKnown DEF SettleInv
  <2> QED BY <2>1, <2>2, <2>4, <2>5, RenderSettle
<1>2. CASE Reload
  <2> DEFINE cs1 == LoadRows(calls, query)
             cs2 == LoadSchema(cs1, query)
             cs  == LoadTables(cs2, query)
  <2>1. /\ Render(cs, query, view, {}) /\ UNCHANGED <<existing, stored, grid, schemaOf>>
        /\ query.table # None
    BY <1>2 DEF Reload, Move, Agent
  <2>2. Good(cs1) /\ Awaited(cs1, query)
    BY <2>1, LoadGood, LoadAwaited
  <2> HIDE DEF cs1
  <2>3. Good(cs2) /\ Awaited(cs2, query) /\ Known(cs2, query.table)
    BY <2>1, <2>2, LoadGood, LoadOther, SchemaKnown
  <2> HIDE DEF cs2
  <2>4. Good(cs) /\ Awaited(cs, query) /\ cs2 \subseteq cs
    BY <2>3, LoadGood, LoadOther, LoadMore
  <2> HIDE DEF cs
  <2>5. Known(cs, query.table)
    BY <2>3, <2>4, MoreKnown
  <2> QED BY <2>1, <2>4, <2>5, RenderSettle
<1> QED BY <1>1, <1>2

\* The user's own state has no part in it, and a request for a write is not an answer.
LEMMA SendSettle ==
  ASSUME StudioConstants, TypeInv, SettleInv, trouble' = {},
         \/ TickAll \/ CloseInspector \/ CancelEdit
         \/ \E k \in Keys : Tick(k) \/ EditCell(k)
         \/ DeleteSelected \/ InsertRow \/ SaveCell \/ RunSql
         \/ \E t \in Tables : CreateTable(t)
  PROVE  SettleInv'
<1>1. UNCHANGED <<existing, stored, query, view, schemaOf, grid>> /\ trouble = {}
  BY DEF TickAll, CloseInspector, CancelEdit, Tick, EditCell, DeleteSelected, InsertRow,
         SaveCell, RunSql, CreateTable, Write, Move, Agent
<1>2. calls \subseteq calls' /\ \A d \in calls' : d.kind = "rows" => d \in calls
  <2>1. CASE \/ TickAll \/ CloseInspector \/ CancelEdit \/ \E k \in Keys : Tick(k) \/ EditCell(k)
    BY <2>1 DEF TickAll, CloseInspector, CancelEdit, Tick, EditCell
  <2>2. CASE DeleteSelected \/ InsertRow \/ SaveCell
    BY <2>2, NewCallFields DEF DeleteSelected, InsertRow, SaveCell, Write, Send
  <2>3. CASE RunSql
    BY <2>3, NewCallFields DEF RunSql, Send
  <2>4. CASE \E t \in Tables : CreateTable(t)
    BY <2>4, NewCallFields DEF CreateTable
  <2> QED BY <2>1, <2>2, <2>3, <2>4
<1>3. query.table # None => Known(calls, query.table)'
  BY <1>1, <1>2 DEF SettleInv, Known
<1>4. /\ Awaited(calls, query) => Awaited(calls', query)
      /\ Shown(calls, query) => Shown(calls', query)
  BY <1>2, MoreAwaited
<1>5. /\ Awaited(calls', query) => Awaited(calls, query)'
      /\ Shown(calls', query) => Shown(calls, query)'
  BY <1>1 DEF Awaited, Shown, Current
<1> QED BY <1>1, <1>3, <1>4, <1>5 DEF SettleInv

LEMMA UserSettle ==
  ASSUME StudioConstants, TypeInv, SettleInv, User, trouble' = {}
  PROVE  SettleInv'
<1>1. ASSUME NEW t \in Tables, SelectTable(t) PROVE SettleInv'
  <2>1. [query EXCEPT !.table = t] \in Queries
    BY DEF Queries
  <2> QED BY <1>1, <2>1, AskSettle DEF SelectTable
<1>2. CASE TurnPage
  <2>1. PICK p \in Neighbours : Ask([query EXCEPT !.page = p], view)
    BY <1>2 DEF TurnPage
  <2>2. p \in Nat
    BY DEF Neighbours, Queries
  <2>3. [query EXCEPT !.page = p] \in Queries
    BY <2>2 DEF Queries
  <2> QED BY <2>1, <2>3, AskSettle
<1>3. ASSUME NEW s \in PageSizes, Resize(s) PROVE SettleInv'
  <2> DEFINE sized == [query EXCEPT !.size = s]
             q     == [query EXCEPT !.size = s, !.page = 1]
  <2>1. sized \in Queries
    BY DEF Queries
  <2>2. q = [sized EXCEPT !.page = 1]
    BY DEF Queries
  <2> HIDE DEF sized
  <2>3. q \in Queries /\ Ask(q, view)
    BY <1>3, <2>1, <2>2 DEF Resize, Queries
  <2> HIDE DEF q
  <2> QED BY <2>3, AskSettle
<1>4. ASSUME NEW c \in Columns, SortBy(c) PROVE SettleInv'
  <2>1. NextSort(c) \in Sorts
    BY DEF NextSort, Sorts
  <2>2. [query EXCEPT !.sort = NextSort(c)] \in Queries
    BY <2>1 DEF Queries
  <2> QED BY <1>4, <2>2, AskSettle DEF SortBy
<1>5. ASSUME NEW c \in Columns, FilterBy(c) PROVE SettleInv'
  <2>1. [query EXCEPT !.filters = @ \union {c}] \in Queries
    BY DEF Queries
  <2> QED BY <1>5, <2>1, AskSettle DEF FilterBy
<1>6. ASSUME NEW cs \in SUBSET Columns, DropFilters(cs) PROVE SettleInv'
  <2>1. [query EXCEPT !.filters = @ \ cs] \in Queries
    BY DEF Queries
  <2> QED BY <1>6, <2>1, AskSettle DEF DropFilters
<1>7. ASSUME NEW v \in Views, ChangeView(v) PROVE SettleInv'
  BY <1>7, AskSettle DEF ChangeView
<1> QED BY <1>1, <1>2, <1>3, <1>4, <1>5, <1>6, <1>7, LoadsSettle, SendSettle DEF User

\* Once everything is answered, the grid holds what the agent stores for the query and the
\* columns are those of the selected table, as long as nothing went out of the ordinary:
\* whatever the user clicked meanwhile, and however the requests of that table overlapped.
THEOREM GridCorrect ==
  ASSUME StudioConstants
  PROVE  Spec => []SettledGrid
<1>1. Init => TypeInv /\ WriteInv /\ SettleInv
  <2> SUFFICES ASSUME Init PROVE SettleInv
    BY InitType, InitWrite
  <2>1. query.table = None
    BY DEF Init, Blank
  <2> QED BY <2>1 DEF SettleInv
<1>2. TypeInv /\ WriteInv /\ SettleInv /\ [Next]_vars => (TypeInv /\ WriteInv /\ SettleInv)'
  <2> SUFFICES ASSUME TypeInv, WriteInv, SettleInv, [Next]_vars
               PROVE  (TypeInv /\ WriteInv /\ SettleInv)'
    OBVIOUS
  <2>1. TypeInv' /\ WriteInv'
    BY StepType, StepWrite
  <2> SUFFICES ASSUME trouble' = {} PROVE SettleInv'
    BY <2>1 DEF SettleInv
  <2>2. CASE User
    BY <2>2, UserSettle
  <2>3. CASE Answer
    BY <2>3, AnswerSettle, GotRowsSettle DEF Answer
  <2>4. ASSUME NEW c \in calls, Serve(c) PROVE SettleInv'
    BY <2>4, ServeSettle
  <2>5. CASE UNCHANGED vars
    BY <2>5 DEF vars, SettleInv, Known, Awaited, Shown, Current
  <2> QED BY <2>2, <2>3, <2>4, <2>5 DEF Next
<1>3. SettleInv => SettledGrid
  BY DEF SettleInv, Known, Awaited, Newest, Shown, Unseen, Current, SettledGrid
<1> QED BY <1>1, <1>2, <1>3, PTL DEF Spec

----------------------------------------------------------------------------
(* Paging *)

LEMMA Division ==
  ASSUME NEW a \in Nat, NEW s \in Nat \ {0}
  PROVE  a \div s \in Nat /\ (a \div s) * s <= a /\ a < (a \div s) * s + s
OBVIOUS

\* The a-th of m rows is on one of the pages of s rows.
LEMMA PageOfRank ==
  ASSUME NEW m \in Nat, NEW s \in Nat \ {0}, NEW a \in Nat, a < m
  PROVE  \E p \in 1..((m + s - 1) \div s) : (p - 1) * s <= a /\ a < (p - 1) * s + s
<1> DEFINE b == a \div s
           n == (m + s - 1) \div s
<1>1. b \in Nat /\ b * s <= a /\ a < b * s + s
  BY Division
<1>2. m + s - 1 \in Nat
  OBVIOUS
<1>3. n \in Nat /\ m + s - 1 < n * s + s
  BY <1>2, Division
<1> HIDE DEF b, n
<1>4. b < n
  <2>1. b * s + s < n * s + s
    <3>1. b * s \in Nat /\ n * s \in Nat
      BY <1>1, <1>3
    <3>2. b * s < m
      BY <1>1, <3>1
    <3>3. b * s + s <= m + s - 1
      BY <3>1, <3>2
    <3> QED BY <1>3, <3>1, <3>3
  <2> SUFFICES ASSUME n <= b PROVE FALSE
    BY <1>1, <1>3
  <2>2. n * s <= b * s
    BY <1>1, <1>3
  <2> QED BY <1>1, <1>3, <2>1, <2>2
<1>5. (b + 1) \in 1..n /\ (b + 1) - 1 = b
  BY <1>1, <1>3, <1>4
<1> QED BY <1>1, <1>5 DEF n

\* It is on no other.
LEMMA PageOfOne ==
  ASSUME NEW s \in Nat, NEW a \in Nat, NEW p \in Nat, NEW r \in Nat,
         (p - 1) * s <= a, a < (p - 1) * s + s, (r - 1) * s <= a, a < (r - 1) * s + s
  PROVE  p = r
<1>1. ASSUME NEW x \in Nat, NEW y \in Nat, x < y PROVE (x - 1) * s + s <= (y - 1) * s
  <2>1. PICK d \in Nat : y = x + 1 + d
    <3>1. y - x - 1 \in Nat /\ y = x + 1 + (y - x - 1)
      BY <1>1
    <3> QED BY <3>1
  <2>2. d * s \in Nat
    OBVIOUS
  <2>3. (y - 1) * s = (x - 1) * s + s + d * s
    BY <2>1
  <2>4. (x - 1) * s \in Int
    OBVIOUS
  <2> QED BY <2>2, <2>3, <2>4
<1>2. (p - 1) * s \in Int /\ (r - 1) * s \in Int
  OBVIOUS
<1>3. ~(p < r) /\ ~(r < p)
  BY <1>1, <1>2
<1> QED BY <1>3

\* Where the sort column tells the rows apart, the rank of a row is the number of rows that
\* precede it, in whatever order the agent returns them.
LEMMA RankIsPlace ==
  ASSUME NEW m, IsFiniteSet(m), NEW q, Sorted(q, m), NEW rank \in Orders(q, m), NEW k \in m
  PROVE  /\ rank[k] = Cardinality({j \in m : Precedes(q, j, k)})
         /\ Cardinality(m) \in Nat /\ rank[k] \in Nat /\ rank[k] < Cardinality(m)
<1> DEFINE n == Cardinality(m)
           b == {j \in m : Precedes(q, j, k)}
           f == [j \in b |-> rank[j]]
<1>1. n \in Nat
  BY FS_CardinalityType
<1>2. /\ rank \in [m -> 0..n-1]
      /\ \A i, j \in m : i # j => rank[i] # rank[j]
      /\ \A i \in 0..n-1 : \E j \in m : rank[j] = i
  BY DEF Orders, Bijection, Injection, Surjection, IsInjective
<1>3. \A i, j \in m : Precedes(q, i, j) => rank[i] < rank[j]
  BY DEF Orders
<1> HIDE DEF n
<1>4. \A j \in m : Precedes(q, j, k) <=> rank[j] < rank[k]
  <2> SUFFICES ASSUME NEW j \in m, rank[j] < rank[k] PROVE Precedes(q, j, k)
    BY <1>3
  <2>1. rank[j] \in Int /\ rank[k] \in Int
    BY <1>1, <1>2
  <2>2. j # k /\ ~Precedes(q, k, j)
    BY <1>3, <2>1
  <2> QED BY <2>2 DEF Sorted
<1>5. rank[k] \in 0..n-1
  BY <1>2
<1>6. f \in Bijection(b, 0..rank[k] - 1)
  <2>1. f \in [b -> 0..rank[k] - 1]
    BY <1>1, <1>2, <1>4, <1>5
  <2>2. \A i, j \in b : f[i] = f[j] => i = j
    BY <1>2
  <2>3. \A i \in 0..rank[k] - 1 : \E j \in b : f[j] = i
    <3> SUFFICES ASSUME NEW i \in 0..rank[k] - 1 PROVE \E j \in b : f[j] = i
      OBVIOUS
    <3>1. i \in 0..n-1 /\ i < rank[k]
      BY <1>1, <1>5
    <3>2. PICK j \in m : rank[j] = i
      BY <1>2, <3>1
    <3>3. j \in b
      BY <1>4, <3>1, <3>2
    <3> QED BY <3>2, <3>3
  <2> HIDE DEF f, b
  <2> QED BY <2>1, <2>2, <2>3 DEF Bijection, Injection, Surjection, IsInjective
<1>7. IsFiniteSet(b)
  BY FS_Subset
<1> HIDE DEF f, b
<1>8. Cardinality(0..rank[k] - 1) = Cardinality(b)
  BY <1>6, <1>7, FS_Bijection DEF ExistsBijection
<1>9. Cardinality(0..rank[k] - 1) = rank[k]
  <2>1. rank[k] \in Nat
    BY <1>1, <1>5
  <2>2. Cardinality(0..rank[k] - 1) = IF 0 > rank[k] - 1 THEN 0 ELSE rank[k] - 1 - 0 + 1
    BY <2>1, FS_Interval
  <2> QED BY <2>1, <2>2
<1>10. rank[k] \in Nat /\ rank[k] < n
  BY <1>1, <1>5
<1> QED BY <1>1, <1>8, <1>9, <1>10 DEF n, b

\* The row at place a is on page p, of s rows.
OnPage(p, s, a) == (p - 1) * s <= a /\ a < (p - 1) * s + s

\* The pages on[1], on[2], ... of s rows hold the rows of m at their places among c.
Placed(m, s, c, place, on) ==
    /\ \A k \in m, p \in Nat : \A ks \in on[p] :
           /\ place[k] \in Nat /\ place[k] < c
           /\ k \in ks <=> OnPage(p, s, place[k])
    /\ \A p \in Nat : \A ks \in on[p] : ks \subseteq m

\* Pages that hold the places one after the other hold every row, and no row twice.
LEMMA PagesPartition ==
  ASSUME NEW s \in Nat \ {0}, NEW c \in Nat, NEW m, NEW place, NEW on,
         Placed(m, s, c, place, on), m # {} => c # 0
  PROVE  /\ (c + s - 1) \div s \in Nat
         /\ \A k \in m : \E p \in 1..((c + s - 1) \div s) : \A ks \in on[p] : k \in ks
         /\ \A p, r \in 1..((c + s - 1) \div s) :
                p # r => \A ks \in on[p], ls \in on[r] : ks \cap ls = {}
<1> DEFINE n == (c + s - 1) \div s
<1>n. n \in Nat /\ c + s - 1 < n * s + s
  <2>1. c + s - 1 \in Nat
    OBVIOUS
  <2> QED BY <2>1, Division
<1>p. ASSUME NEW a \in Nat, a < c
      PROVE  \E p \in 1..n : (p - 1) * s <= a /\ a < (p - 1) * s + s
  BY <1>p, PageOfRank
<1> HIDE DEF n
<1>1. ASSUME NEW k \in m PROVE \E p \in 1..n : \A ks \in on[p] : k \in ks
  <2>1. CASE \A p \in 1..n : on[p] = {}
    <3>1. c # 0
      BY DEF Placed
    <3>2. n # 0
      BY <1>n, <3>1
    <3>3. 1 \in 1..n
      BY <1>n, <3>2
    <3> QED BY <2>1, <3>3
  <2>2. CASE \E p \in 1..n : on[p] # {}
    <3>1. PICK p0 \in 1..n : \E ks \in on[p0] : TRUE
      BY <2>2
    <3>2. p0 \in Nat
      BY <1>n
    <3>3. place[k] \in Nat /\ place[k] < c
      BY <3>1, <3>2 DEF Placed
    <3>4. PICK p \in 1..n : (p - 1) * s <= place[k] /\ place[k] < (p - 1) * s + s
      BY <1>p, <3>3
    <3>5. p \in Nat
      BY <1>n
    <3> QED BY <3>4, <3>5 DEF Placed, OnPage
  <2> QED BY <2>1, <2>2
<1>2. ASSUME NEW p \in 1..n, NEW r \in 1..n, NEW ks \in on[p], NEW ls \in on[r],
             NEW k \in ks, k \in ls
      PROVE  p = r
  <2>1. p \in Nat /\ r \in Nat
    BY <1>n
  <2>2. k \in m
    BY <2>1 DEF Placed
  <2>3. place[k] \in Nat /\ (p - 1) * s <= place[k] /\ place[k] < (p - 1) * s + s
    BY <2>1, <2>2 DEF Placed, OnPage
  <2>4. (r - 1) * s <= place[k] /\ place[k] < (r - 1) * s + s
    BY <1>2, <2>1, <2>2 DEF Placed, OnPage
  <2> QED BY <2>1, <2>3, <2>4, PageOfOne
<1> USE <1>n
<1> QED BY <1>1, <1>2 DEF n

\* Turning the pages shows every row the filters keep once, for any rows, any page size the
\* agent serves and any sort column that tells the rows apart.
THEOREM RowsReachable ==
  ASSUME StudioConstants
  PROVE  Spec => []EveryRowReachable
<1>1. ASSUME TypeOK PROVE EveryRowReachable
  <2> DEFINE rows == stored[query.table]
             m    == Matching(query, rows)
             n    == (Cardinality(m) + query.size - 1) \div query.size
             on == [p \in Nat |-> Pages([query EXCEPT !.page = p], rows)]
             a == [k \in m |-> Cardinality({j \in m : Precedes(query, j, k)})]
  <2> SUFFICES ASSUME query.table # None, query.size <= AgentLimit, Sorted(query, m)
               PROVE  /\ \A k \in m : \E p \in 1..n : \A ks \in Pages([query EXCEPT !.page = p], rows) : k \in ks
                      /\ \A p, r \in 1..n :
                             p # r => \A ks \in Pages([query EXCEPT !.page = p], rows),
                                         ls \in Pages([query EXCEPT !.page = r], rows) : ks \cap ls = {}
    BY DEF EveryRowReachable
  <2>1. query.size \in Nat \ {0}
    BY <1>1 DEF Queries, StudioConstants
  <2>2. IsFiniteSet(m)
    <3>1. rows \subseteq Keys
      BY <1>1 DEF Queries
    <3>2. m \subseteq Keys
      BY <3>1 DEF Matching
    <3> QED BY <3>2, FS_Subset DEF StudioConstants
  <2>3. \A p : Matching([query EXCEPT !.page = p], rows) = m
    BY <1>1 DEF Matching, Queries
  \* A page holds the rows whose place is on it.
  <2>4. ASSUME NEW p \in Nat, NEW ks \in on[p]
        PROVE  /\ ks \subseteq m
               /\ \A k \in m : /\ a[k] \in Nat /\ a[k] < Cardinality(m)
                               /\ k \in ks <=> OnPage(p, query.size, a[k])
    <3> DEFINE q == [query EXCEPT !.page = p]
    <3>1. q.page = p /\ q.size = query.size /\ q.sort = query.sort /\ q.table = query.table
      BY <1>1 DEF Queries
    <3>2. Limit(q.size) = query.size
      BY <2>1, <3>1 DEF Limit, StudioConstants
    <3>3. Offset(q) = (p - 1) * query.size
      BY <3>1, <3>2 DEF Offset
    <3>4. \A j, k : Precedes(q, j, k) = Precedes(query, j, k)
      BY <3>1 DEF Precedes
    <3>5. Matching(q, rows) = m
      BY <2>3
    <3>6. on[p] = Pages(q, rows)
      OBVIOUS
    <3> HIDE DEF q, m, rows, on
    <3>7. PICK rank \in Orders(q, m) :
            ks = {k \in m : Offset(q) <= rank[k] /\ rank[k] < Offset(q) + Limit(q.size)}
      BY <3>5, <3>6 DEF Pages
    <3>8. Sorted(q, m)
      BY <3>4 DEF Sorted
    <3>9. ASSUME NEW k \in m
          PROVE  rank[k] = a[k] /\ Cardinality(m) \in Nat /\ rank[k] \in Nat /\ rank[k] < Cardinality(m)
      <4>1. {j \in m : Precedes(q, j, k)} = {j \in m : Precedes(query, j, k)}
        BY <3>4
      <4>2. rank[k] = Cardinality({j \in m : Precedes(q, j, k)})
        BY <2>2, <3>7, <3>8, RankIsPlace
      <4>3. Cardinality(m) \in Nat /\ rank[k] \in Nat /\ rank[k] < Cardinality(m)
        BY <2>2, <3>7, <3>8, RankIsPlace
      <4> QED BY <4>1, <4>2, <4>3
    <3> HIDE DEF a
    <3> QED BY <3>2, <3>3, <3>7, <3>9 DEF OnPage
  <2>5. Cardinality(m) \in Nat /\ (m # {} => Cardinality(m) # 0)
    <3> HIDE DEF m
    <3> QED BY <2>2, FS_CardinalityType, FS_EmptySet
  <2> HIDE DEF on, m, a
  <2>6. Placed(m, query.size, Cardinality(m), a, on)
    <3>1. ASSUME NEW k \in m, NEW p \in Nat, NEW ks \in on[p]
          PROVE  /\ a[k] \in Nat /\ a[k] < Cardinality(m)
                 /\ k \in ks <=> OnPage(p, query.size, a[k])
      BY <2>4
    <3>2. ASSUME NEW p \in Nat, NEW ks \in on[p] PROVE ks \subseteq m
      BY <2>4
    <3> QED BY <3>1, <3>2 DEF Placed
  <2>7. /\ n \in Nat
        /\ \A k \in m : \E p \in 1..n : \A ks \in on[p] : k \in ks
        /\ \A p, r \in 1..n : p # r => \A ks \in on[p], ls \in on[r] : ks \cap ls = {}
    BY <2>1, <2>5, <2>6, PagesPartition
  <2> HIDE DEF n
  <2>8. ASSUME NEW p \in 1..n PROVE Pages([query EXCEPT !.page = p], rows) = on[p]
    BY <2>7 DEF on
  <2>9. ASSUME NEW k \in m
        PROVE  \E p \in 1..n : \A ks \in Pages([query EXCEPT !.page = p], rows) : k \in ks
    <3>1. PICK p \in 1..n : \A ks \in on[p] : k \in ks
      BY <2>7
    <3>2. WITNESS p \in 1..n
    <3> QED BY <2>8, <3>1
  <2>10. ASSUME NEW p \in 1..n, NEW r \in 1..n, p # r,
                NEW ks \in Pages([query EXCEPT !.page = p], rows),
                NEW ls \in Pages([query EXCEPT !.page = r], rows)
         PROVE  ks \cap ls = {}
    <3>1. ks \in on[p] /\ ls \in on[r]
      BY <2>8
    <3> QED BY <2>7, <2>10, <3>1
  <2> QED BY <2>9, <2>10
<1>2. Spec => []TypeOK
  BY TypeCorrect
<1> QED BY <1>1, <1>2, PTL
=============================================================================
