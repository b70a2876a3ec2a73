------------------------------- MODULE Persister -------------------------------
(***************************************************************************)
(* The models of the persister (persister/src/model.ts): operations on     *)
(* plain objects become SQL statements with numbered placeholders, which   *)
(* PostgreSQL runs on a table.  Here a statement is a record that keeps    *)
(* what its text says and the numbers of its placeholders; its parameters  *)
(* are a sequence.  Quoting and spelling are left out.                     *)
(*                                                                         *)
(* A JavaScript object is the sequence of its entries.  The columns of the *)
(* table may all be null, and one of them has a unique index.              *)
(***************************************************************************)
EXTENDS Integers, Sequences, FiniteSets

CONSTANTS Column,       \* the columns of the table
          Key,          \* the one with a unique index
          Objects,      \* the objects users pass as data, queries and patches
          Sorts,        \* the orders they read in: sequences of [column, desc]
          Offsets,      \* the offsets and
          Limits,       \*   the limits they read with, 0 for none
          MaxRows       \* bound: rows of the table

VARIABLE table          \* a sequence of rows

Null == 0               \* values are the numbers from 1 on
Undefined == -1
Row == [Column -> Nat]

\* An object has one entry for a column.
Entry == [column : Column, value : Nat \cup {Undefined}]
IsObject(o) == /\ o \in Seq(Entry)
               /\ \A i, j \in DOMAIN o : o[i].column = o[j].column => i = j

ASSUME PersisterAssumption ==
    /\ Key \in Column
    /\ \A o \in Objects : IsObject(o)
    /\ Offsets \subseteq Nat /\ Limits \subseteq Nat

\* The elements of s at the positions I, in their order.
Kept(s, I) == [n \in 1 .. Cardinality(I) |->
                 s[CHOOSE i \in I : Cardinality({j \in I : j <= i}) = n]]

Refused == [kind |-> "refused"]     \* an assertion fails, nothing is sent

-----------------------------------------------------------------------------
(* Objects.                                                                *)

Defined(object) == Kept(object, {i \in DOMAIN object : object[i].value # Undefined})
Columns(entries) == [i \in DOMAIN entries |-> entries[i].column]
Values(entries) == [i \in DOMAIN entries |-> entries[i].value]
Has(object, c) == \E i \in DOMAIN object : object[i].column = c
Get(object, c) == object[CHOOSE i \in DOMAIN object : object[i].column = c].value

\* { ...a, ...b }
Spread(a, b) ==
    [i \in DOMAIN a |-> IF Has(b, a[i].column)
                        THEN [a[i] EXCEPT !.value = Get(b, a[i].column)]
                        ELSE a[i]]
    \o Kept(b, {i \in DOMAIN b : ~Has(a, b[i].column)})

-----------------------------------------------------------------------------
(* The statements.                                                         *)

\* where(): a null takes no placeholder, an undefined entry is no condition.
MutantWhere(query, params) ==
    LET d == Defined(query)
        place(i) == Cardinality({j \in 1 .. i : d[j].value # Null})
    IN  [conditions |-> [i \in DOMAIN d |->
                           [column |-> d[i].column,
                            index  |-> IF d[i].value = Null THEN 0 ELSE place(i)]],
         params |-> params \o Values(Kept(d, {i \in DOMAIN d : d[i].value # Null})),
         count  |-> Len(d)]
Where(query, params) ==
    LET d == Defined(query)
        place(i) == Cardinality({j \in 1 .. i : d[j].value # Null})
    IN  [conditions |-> [i \in DOMAIN d |->
                           [column |-> d[i].column,
                            index  |-> IF d[i].value = Null THEN 0
                                       ELSE Len(params) + place(i)]],
         params |-> params \o Values(Kept(d, {i \in DOMAIN d : d[i].value # Null})),
         count  |-> Len(d)]

Insert(object, unique) ==
    LET d == Defined(object)
    IN  [kind |-> "insert", columns |-> Columns(d),
         placeholders |-> [i \in DOMAIN d |-> i],
         unique |-> unique, params |-> Values(d)]

\* Keys go first, and override the data.
Upsert(keys, data) ==
    LET d == Defined(Spread(Spread(keys, data), keys))
        u == Defined(data)
    IN  IF keys = <<>> \/ data = <<>> THEN Refused
        ELSE [kind |-> "upsert", columns |-> Columns(d),
              placeholders |-> [i \in DOMAIN d |-> i],
              conflict |-> Columns(Defined(keys)),
              updates |-> [i \in DOMAIN u |->
                             [column |-> u[i].column,
                              index  |-> (i - 1) + Len(d) + 1]],
              params |-> Values(d) \o Values(u)]

Select(query, sort, offset, limit) ==
    LET w == Where(query, <<>>)
        o == IF offset > 0 THEN <<offset>> ELSE <<>>
        l == IF limit > 0 THEN <<limit>> ELSE <<>>
    IN  [kind |-> "select", where |-> w.conditions, order |-> sort,
         offset |-> IF offset > 0 THEN Len(w.params) + 1 ELSE 0,
         limit |-> IF limit > 0 THEN Len(w.params \o o) + 1 ELSE 0,
         params |-> w.params \o o \o l]

\* A patch without a value is a SELECT; a query without a condition is refused.
Update(query, patch) ==
    LET d == Defined(patch)
        w == Where(query, Values(d))
    IN  IF d = <<>> THEN Select(query, <<>>, 0, 0)
        ELSE IF w.count = 0 THEN Refused
        ELSE [kind |-> "update", where |-> w.conditions, params |-> w.params,
              updates |-> [i \in DOMAIN d |->
                             [column |-> d[i].column, index |-> i]]]

Del(query) ==
    LET w == Where(query, <<>>)
    IN  IF w.count = 0 THEN Refused
        ELSE [kind |-> "delete", where |-> w.conditions, params |-> w.params]

-----------------------------------------------------------------------------
(* PostgreSQL: what a statement does to the rows of a table.               *)

Failed(rows) == [table |-> rows, rows |-> <<>>, failed |-> TRUE]
Done(rows, returned) == [table |-> rows, rows |-> returned, failed |-> FALSE]
DefaultRow == [c \in Column |-> Null]

Unique(rows) == \A i, j \in DOMAIN rows :
    i # j /\ rows[i][Key] # Null => rows[i][Key] # rows[j][Key]

Holds(row, conditions, params) == \A i \in DOMAIN conditions :
    row[conditions[i].column] =
        IF conditions[i].index = 0 THEN Null ELSE params[conditions[i].index]

Given(row, stmt) == [c \in Column |->
    IF \E i \in DOMAIN stmt.columns : stmt.columns[i] = c
    THEN stmt.params[stmt.placeholders[
            CHOOSE i \in DOMAIN stmt.columns : stmt.columns[i] = c]]
    ELSE row[c]]

Assigned(row, stmt) == [c \in Column |->
    IF \E i \in DOMAIN stmt.updates : stmt.updates[i].column = c
    THEN stmt.params[stmt.updates[
            CHOOSE i \in DOMAIN stmt.updates : stmt.updates[i].column = c].index]
    ELSE row[c]]

\* Nulls come last in ascending order and first in descending order.
Precedes(a, b, desc) ==
    IF desc THEN a # b /\ (a = Null \/ (b # Null /\ a > b))
    ELSE a # b /\ (b = Null \/ (a # Null /\ a < b))
Before(r, s, order) == \E i \in DOMAIN order :
    /\ Precedes(r[order[i].column], s[order[i].column], order[i].desc)
    /\ \A j \in 1 .. i - 1 : r[order[j].column] = s[order[j].column]
Ordered(rows, order) ==
    LET rank(i) == 1 + Cardinality({j \in DOMAIN rows :
                        \/ Before(rows[j], rows[i], order)
                        \/ ~Before(rows[i], rows[j], order) /\ j < i})
    IN  [n \in DOMAIN rows |-> rows[CHOOSE i \in DOMAIN rows : rank(i) = n]]
Page(rows, offset, limit) ==
    SubSeq(rows, offset + 1,
           IF limit = 0 \/ offset + limit > Len(rows) THEN Len(rows)
           ELSE offset + limit)

Inserted(rows, stmt) ==
    LET row == Given(DefaultRow, stmt)
    IN  IF Unique(Append(rows, row)) THEN Done(Append(rows, row), <<row>>)
        ELSE IF stmt.unique THEN Done(rows, <<>>) ELSE Failed(rows)

\* The conflict target must be a unique index; NULL conflicts with nothing.
Upserted(rows, stmt) ==
    LET row == Given(DefaultRow, stmt)
        same == {i \in DOMAIN rows : row[Key] # Null /\ rows[i][Key] = row[Key]}
        next == [i \in DOMAIN rows |->
                   IF i \in same THEN Assigned(rows[i], stmt) ELSE rows[i]]
    IN  IF stmt.conflict # <<Key>> \/ stmt.updates = <<>> THEN Failed(rows)
        ELSE IF same = {} THEN Done(Append(rows, row), <<row>>)
        ELSE IF ~Unique(next) THEN Failed(rows)
        ELSE Done(next, <<next[CHOOSE i \in same : TRUE]>>)

Updated(rows, stmt) ==
    LET hit(row) == Holds(row, stmt.where, stmt.params)
        next == [i \in DOMAIN rows |->
                   IF hit(rows[i]) THEN Assigned(rows[i], stmt) ELSE rows[i]]
    IN  IF Unique(next)
        THEN Done(next, Kept(next, {i \in DOMAIN rows : hit(rows[i])}))
        ELSE Failed(rows)

Execute(stmt, rows) ==
    LET hits == {i \in DOMAIN rows : Holds(rows[i], stmt.where, stmt.params)}
        param(i) == IF i = 0 THEN 0 ELSE stmt.params[i]
    IN  CASE stmt.kind = "refused" -> Failed(rows)
          [] stmt.kind = "insert"  -> Inserted(rows, stmt)
          [] stmt.kind = "upsert"  -> Upserted(rows, stmt)
          [] stmt.kind = "update"  -> Updated(rows, stmt)
          [] stmt.kind = "delete"  ->
                Done(Kept(rows, DOMAIN rows \ hits), Kept(rows, hits))
          [] stmt.kind = "select"  ->
                Done(rows, Page(Ordered(Kept(rows, hits), stmt.order),
                                param(stmt.offset), param(stmt.limit)))

-----------------------------------------------------------------------------
(* The calls of a model, and what they do.                                 *)

\* The types forbid data that repeats a key; a repeated key with a value wins.
Overlaid(keys, data) == \A i \in DOMAIN keys :
    Has(data, keys[i].column) => keys[i].value # Undefined

Call ==
    [op : {"create"}, data : Objects, unique : BOOLEAN]
    \cup {c \in [op : {"upsert"}, query : Objects, data : Objects] :
            Overlaid(c.query, c.data)}
    \cup [op : {"update"}, query : Objects, data : Objects]
    \cup [op : {"read"}, query : Objects, sort : Sorts, offset : Offsets,
          limit : Limits]
    \cup [op : {"delete"}, query : Objects]

Statement(call) ==
    CASE call.op = "create" -> Insert(call.data, call.unique)
      [] call.op = "upsert" -> Upsert(call.query, call.data)
      [] call.op = "read"   -> Select(call.query, call.sort, call.offset, call.limit)
      [] call.op = "update" -> Update(call.query, call.data)
      [] call.op = "delete" -> Del(call.query)

Effect(call) == Execute(Statement(call), table)

Perform(call) ==
    /\ table' = Effect(call).table
    /\ Len(table') <= MaxRows

Init == table = <<>>

-----------------------------------------------------------------------------
(* What the documentation of Model promises, without any SQL.              *)

\* Queries compare for equality, null with null; undefined is not there.
Matches(row, query) == \A c \in Column :
    Has(query, c) /\ Get(query, c) # Undefined => row[c] = Get(query, c)
Empty(object) == \A i \in DOMAIN object : object[i].value = Undefined
Patched(row, object) == [c \in Column |->
    IF Has(object, c) /\ Get(object, c) # Undefined THEN Get(object, c) ELSE row[c]]
Found(query) == Kept(table, {i \in DOMAIN table : Matches(table[i], query)})

Created(call) ==
    LET row == Patched(DefaultRow, call.data)
    IN  IF Unique(Append(table, row)) THEN Done(Append(table, row), <<row>>)
        ELSE IF call.unique THEN Done(table, <<>>) ELSE Failed(table)

\* "This method will fail when query is the empty object"; it returns the rows it
\* has updated, which without a value in the patch are what they were.
Changed(call) ==
    LET next == [i \in DOMAIN table |->
            IF Matches(table[i], call.query) THEN Patched(table[i], call.data)
            ELSE table[i]]
    IN  IF Empty(call.query) \/ ~Unique(next) THEN Failed(table)
        ELSE Done(next, [i \in DOMAIN Found(call.query) |->
                            Patched(Found(call.query)[i], call.data)])

\* The row with these keys is updated, or one is created; a null key never is
\* the key of a row.  The keys must be those of the unique index.
Merged(call) ==
    LET keyed == Len(Defined(call.query)) = 1 /\ Has(Defined(call.query), Key)
        row == Patched(Patched(DefaultRow, call.data), call.query)
        hit(i) == row[Key] # Null /\ table[i][Key] = row[Key]
        next == [i \in DOMAIN table |->
            IF hit(i) THEN Patched(table[i], call.data) ELSE table[i]]
    IN  IF ~keyed \/ Empty(call.data) THEN Failed(table)
        ELSE IF \A i \in DOMAIN table : ~hit(i) THEN Done(Append(table, row), <<row>>)
        ELSE IF ~Unique(next) THEN Failed(table)
        ELSE Done(next, <<next[CHOOSE i \in DOMAIN table : hit(i)]>>)

Removed(call) ==
    IF Empty(call.query) THEN Failed(table)
    ELSE Done(Kept(table, {i \in DOMAIN table : ~Matches(table[i], call.query)}),
              Found(call.query))

Promised(call) ==
    CASE call.op = "create" -> Created(call)
      [] call.op = "upsert" -> Merged(call)
      [] call.op = "update" -> Changed(call)
      [] call.op = "delete" -> Removed(call)
      [] call.op = "read"   ->
            Done(table, Page(Ordered(Found(call.query), call.sort),
                             call.offset, call.limit))

\* update({}, {}): the patch is looked at first, and a SELECT needs no condition.
SelectsAll(call) == call.op = "update" /\ Empty(call.query) /\ Empty(call.data)

\* Whatever is in the table, every operation of a model does and returns what
\* its documentation promises: nulls, undefined entries and the numbering of
\* placeholders shared by several clauses make no difference.  The exception is
\* update() with neither a condition nor a value, which is documented to fail
\* (model.ts:96) and returns every row (model.ts:301, as 02-model.test.ts:280
\* wants); as promised, it changes none of them.
Faithful ==
    \A call \in Call :
        /\ Effect(call).table = Promised(call).table
        /\ SelectsAll(call) \/ Effect(call) = Promised(call)
=============================================================================
