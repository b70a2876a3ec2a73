--------------------------------- MODULE Search ---------------------------------
(***************************************************************************)
(* Searches (persister/src/search.ts, client/src/sql.ts) over the table of *)
(* the persister, joined with a second one: a page with its total in one   *)
(* query, and a second query for the total when the page lies beyond the   *)
(* last row, while others write.  Every parameter is the sequence of its   *)
(* values, and names of columns, fields and joins are numbers as well.     *)
(***************************************************************************)
EXTENDS Persister, SequencesExt

CONSTANTS Text,         \* the full text column
          Searches,     \* the options users search with
          Meanwhile,    \* bound: the calls others make between two queries
          Other         \* the joined table: a sequence of Ref

VARIABLE search         \* [phase, asked, seen, total, rows]

DefaultLimit == 20
FullText == 2           \* the number of its name
As == 7                 \* the name of the join
JsonNull == -2
Ref == [id : Nat, rank : Nat]
NoRef == [id |-> Null, rank |-> Null]
Nothing == [phase |-> "idle"]

Condition ==
    [name : {1, FullText}, field : Nat \cup {Undefined},
     op : {"=", "!=", ">", "in", "not in"}, value : Seq(Nat)]
Option ==
    [extra : Seq(Seq([column : Column, value : Nat])), fts : BOOLEAN,
     joined : BOOLEAN, sortable : BOOLEAN, sort : {Undefined, 1, FullText, As},
     desc : BOOLEAN, q : Nat \cup {Undefined}, filters : Seq(Condition),
     offset : Nat, limit : Nat \cup {Undefined}]

ASSUME SearchAssumption ==
    /\ Text \in Column /\ Other \in Seq(Ref)
    /\ \A s \in Searches : s \in Option

Named(row, name) == IF name = 1 THEN row[Key] ELSE row[Text]
\* The fields of the JSON document a column holds: n has the one field n.
Field(document, name) ==
    IF document = Null \/ document # name THEN Null
    ELSE IF document = 1 THEN JsonNull ELSE document
Json(value) == IF value = Null THEN JsonNull ELSE value

-----------------------------------------------------------------------------
(* The statements.                                                         *)

\* SQL`...``...`: every template counts on from the parameters before it.
Continued(sql, part) ==
    [conditions |-> sql.conditions \o
        [i \in DOMAIN part |-> [column |-> part[i].column, index |-> i + Len(sql.params)]],
     params |-> sql.params \o Values(part)]
Template(parts) ==
    LET sql[n \in 0 .. Len(parts)] ==
            IF n = 0 THEN [conditions |-> <<>>, params |-> <<>>]
            ELSE Continued(sql[n - 1], parts[n])
    IN  sql[Len(parts)]

\* The field comes before the value.
MutantFilter(sql, filter) ==
    LET json == filter.field # Undefined
        n == Len(sql.params)
    IN  [where |-> Append(sql.where,
            [name |-> filter.name, op |-> filter.op,
             field |-> IF json THEN n + 1 ELSE 0, index |-> n + 1]),
         params |-> sql.params
            \o (IF json THEN <<<<filter.field>>>> ELSE <<>>)
            \o <<IF json THEN [i \in DOMAIN filter.value |-> Json(filter.value[i])]
                 ELSE filter.value>>]
Filter(sql, filter) ==
    LET json == filter.field # Undefined
        n == Len(sql.params)
    IN  [where |-> Append(sql.where,
            [name |-> filter.name, op |-> filter.op,
             field |-> IF json THEN n + 1 ELSE 0,
             index |-> IF json THEN n + 2 ELSE n + 1]),
         params |-> sql.params
            \o (IF json THEN <<<<filter.field>>>> ELSE <<>>)
            \o <<IF json THEN [i \in DOMAIN filter.value |-> Json(filter.value[i])]
                 ELSE filter.value>>]

\* One after the other.
Filters(start, filters) ==
    LET sql[n \in 0 .. Len(filters)] ==
            IF n = 0 THEN start ELSE Filter(sql[n - 1], filters[n])
    IN  sql[Len(filters)]

\* The join sorts by its own column, with nulls last; then comes the rank.
OrderBy(s) ==
    (IF s.sort = As THEN <<[by |-> As, desc |-> s.desc]>>
     ELSE IF s.sort # Undefined THEN <<[by |-> s.sort, desc |-> s.desc]>>
     ELSE <<>>)

\* count is "no" for find(), "over" for the page and "only" for the total.
Build(count, s) ==
    LET extra == Template(s.extra)
        text == IF s.fts /\ count # "only" THEN <<<<FullText>>>> ELSE <<>>
        join == IF s.joined /\ count # "only" THEN <<<<As>>>> ELSE <<>>
        own == [i \in DOMAIN extra.params |-> <<extra.params[i]>>] \o text
        head == own \o join
        q == IF s.q # Undefined THEN <<<<s.q>>>> ELSE <<>>
        f == Filters([where |-> <<>>, params |-> head \o q], s.filters)
        o == IF s.offset > 0 THEN <<<<s.offset>>>> ELSE <<>>
        limit == IF s.limit = Undefined THEN DefaultLimit ELSE s.limit
        l == IF limit > 0 THEN <<<<limit>>>> ELSE <<>>
    IN  [count  |-> count, extra |-> extra.conditions,
         text   |-> IF text = <<>> THEN 0 ELSE Len(extra.params) + 1,
         as     |-> IF join = <<>> THEN 0 ELSE Len(own) + 1,
         joined |-> s.joined,
         query  |-> IF q = <<>> THEN 0 ELSE Len(head) + 1,
         where  |-> f.where,
         order  |-> IF count = "only" THEN <<>> ELSE OrderBy(s),
         offset |-> IF o = <<>> THEN 0 ELSE Len(f.params) + 1,
         limit  |-> IF l = <<>> THEN 0 ELSE Len(f.params \o o) + 1,
         params |-> f.params \o o \o l]

\* What the code refuses: a full text search, or an order, it has no column for.
Refuses(s) == \/ s.q # Undefined /\ ~s.fts
              \/ s.sort = As /\ s.joined /\ ~s.sortable

-----------------------------------------------------------------------------
(* PostgreSQL: joins, conditions and pages.                                *)

Joins(rows, joined) ==
    FlattenSeq([i \in DOMAIN rows |->
        LET refs == IF joined THEN Kept(Other, {n \in DOMAIN Other : Other[n].id = rows[i][Text]})
                    ELSE <<>>
        IN  IF refs = <<>> THEN <<[row |-> rows[i], ref |-> NoRef]>>
            ELSE [n \in DOMAIN refs |-> [row |-> rows[i], ref |-> refs[n]]]])

\* A comparison with a null holds only where the operator says so.
Compares(left, op, right) ==
    CASE op = "="      -> left = right[1]
      [] op = "!="     -> left # right[1]
      [] op = ">"      -> left # Null /\ right[1] # Null /\ left > right[1]
      [] op = "in"     -> left # Null /\ \E i \in DOMAIN right : right[i] = left
      [] op = "not in" -> \A i \in DOMAIN right :
                             left # Null /\ right[i] # Null /\ right[i] # left

Selected(j, stmt) ==
    LET param(i) == stmt.params[i]
        column(c) == IF c.field = 0 THEN Named(j.row, c.name)
                     ELSE Field(Named(j.row, c.name), param(c.field)[1])
    IN  /\ \A i \in DOMAIN stmt.extra :
            j.row[stmt.extra[i].column] = param(stmt.extra[i].index)[1]
        /\ stmt.query # 0 => j.row[Text] = param(stmt.query)[1]
        /\ \A i \in DOMAIN stmt.where :
            Compares(column(stmt.where[i]), stmt.where[i].op, param(stmt.where[i].index))

SortsBefore(a, b, order) == \E i \in DOMAIN order :
    IF order[i].by = As
    THEN /\ a.ref.rank # Null
         /\ \/ b.ref.rank = Null
            \/ IF order[i].desc THEN a.ref.rank > b.ref.rank
               ELSE a.ref.rank < b.ref.rank
    ELSE Precedes(Named(a.row, order[i].by), Named(b.row, order[i].by), order[i].desc)
\* Ties stay in the order of the rows, as in every query here.
Arranged(joins, order) ==
    LET rank(i) == 1 + Cardinality({n \in DOMAIN joins :
                        \/ SortsBefore(joins[n], joins[i], order)
                        \/ ~SortsBefore(joins[i], joins[n], order) /\ n < i})
    IN  [n \in DOMAIN joins |-> joins[CHOOSE i \in DOMAIN joins : rank(i) = n]]

\* TO_JSONB(row) - text || JSONB_BUILD_OBJECT(as, TO_JSONB(ref))
Result(j, text, as) ==
    [columns |-> [c \in Column \ (IF text = FullText THEN {Text} ELSE {}) |-> j.row[c]],
     as |-> as, ref |-> IF as = 0 THEN NoRef ELSE j.ref]

Answer(stmt, rows) ==
    LET joins == Joins(rows, stmt.joined)
        all == Arranged(Kept(joins, {n \in DOMAIN joins : Selected(joins[n], stmt)}),
                        stmt.order)
        param(i) == IF i = 0 THEN 0 ELSE stmt.params[i][1]
        page == Page(all, param(stmt.offset), param(stmt.limit))
    IN  [total |-> Len(all),
         rows |-> [i \in DOMAIN page |->
                     Result(page[i], param(stmt.text), param(stmt.as))]]

-----------------------------------------------------------------------------
(* A search, and others who write.                                         *)

PageOf(s) == Answer(Build("over", s), table)
\* find(): the first result, if any.
First(s) == Answer(Build("no", [s EXCEPT !.offset = 0, !.limit = 1]), table).rows

Answered(s, seen, total, rows) ==
    [phase |-> "answered", asked |-> s, seen |-> seen, total |-> total, rows |-> rows]

\* search(): a page without rows has no total, unless it is the first page.
Ask(s) ==
    /\ search = Nothing /\ ~Refuses(s)
    /\ search' =
         LET page == PageOf(s)
         IN  IF page.rows # <<>> \/ s.offset = 0
             THEN Answered(s, table, IF page.rows = <<>> THEN 0 ELSE page.total,
                           page.rows)
             ELSE [phase |-> "counting", asked |-> s, seen |-> table]
    /\ UNCHANGED table

Count ==
    /\ search.phase = "counting"
    /\ LET stmt == Build("only", [search.asked EXCEPT !.offset = 0, !.limit = Undefined])
       IN  search' = Answered(search.asked, table, Answer(stmt, table).total, <<>>)
    /\ UNCHANGED table

Taken == search.phase = "answered" /\ search' = Nothing /\ UNCHANGED table

Write(call) ==
    /\ search = Nothing \/ (search.phase = "counting" /\ call \in Meanwhile)
    /\ Perform(call) /\ UNCHANGED search

SearchInit == Init /\ search = Nothing
SearchNext ==
    \/ \E s \in Searches : Ask(s)
    \/ Count
    \/ Taken
    \/ \E call \in Call : Write(call)
SearchSpec == SearchInit /\ [][SearchNext]_<<table, search>>

-----------------------------------------------------------------------------
(* What a search finds, without any SQL.                                   *)

Wants(j, s) ==
    /\ \A i \in DOMAIN s.extra : \A n \in DOMAIN s.extra[i] :
        j.row[s.extra[i][n].column] = s.extra[i][n].value
    /\ s.q # Undefined => j.row[Text] = s.q
    /\ \A i \in DOMAIN s.filters :
        LET f == s.filters[i]
        IN  IF f.field = Undefined THEN Compares(Named(j.row, f.name), f.op, f.value)
            ELSE Compares(Field(Named(j.row, f.name), f.field), f.op,
                          [n \in DOMAIN f.value |-> Json(f.value[n])])

Wanted(s, rows) ==
    LET joins == Joins(rows, s.joined)
        all == Arranged(Kept(joins, {n \in DOMAIN joins : Wants(joins[n], s)}), OrderBy(s))
    IN  [i \in DOMAIN all |-> Result(all[i], IF s.fts THEN FullText ELSE 0,
                                     IF s.joined THEN As ELSE 0)]

RightAnswer == search.phase = "answered" =>
    LET s == search.asked
        all == Wanted(s, search.seen)
    IN  /\ search.total = Len(all)
        /\ IF search.rows = <<>> THEN s.offset > 0 \/ all = <<>>
           ELSE search.rows = Page(all, s.offset,
                    IF s.limit = Undefined THEN DefaultLimit ELSE s.limit)
RightFirst == search = Nothing =>
    \A s \in Searches : ~Refuses(s) => First(s) = Page(Wanted(s, table), 0, 1)

\* An answer is right about one moment: its total counts everything the search
\* finds in the table as it then was, and its rows are the page asked for - or,
\* for a page that was beyond the last row, none, with the total of the moment
\* of the second query.  find() gives the first row of the same result.
PageOfOneMoment == RightAnswer /\ RightFirst

\* Every operation of a model is faithful, in every table a search meets.
ModelsFaithful == search = Nothing => Faithful
=============================================================================
