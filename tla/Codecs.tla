--------------------------------- MODULE Codecs ---------------------------------
(***************************************************************************)
(* The way of a value to PostgreSQL and back (types/src, client/src/       *)
(* result.ts, pool/src/connection.ts): serialize() with its cache of the   *)
(* texts of objects, and the parsers that read a column of the result.     *)
(* Text is a sequence of character codes.  The objects of a program form a *)
(* heap: arrays refer to other objects, and may be changed at any time.    *)
(***************************************************************************)
EXTENDS Integers, Sequences, FiniteSets, SequencesExt

CONSTANTS Objects, Contents(_),     \* what an object may hold
          MaxChanges                \* bound: changes to objects

Text == Seq(Nat)
Nothing == [kind |-> "null"]
Given == [kind : {"text"}, text : Text] \cup [kind : {"number"}, number : Nat]
         \cup [kind : {"bool"}, bool : BOOLEAN] \cup [kind : {"ref"}, to : Objects]
Years == -9998 .. 9999      \* of four digits
Bound == {b \in Seq(Given) : Len(b) <= 1}
RangeContent == [kind : {"range"}, empty : BOOLEAN, lower : Bound, upper : Bound,
                 closed : BOOLEAN \X BOOLEAN]
Content ==
    [kind : {"array"}, members : Seq(Given \cup {Nothing})]
    \cup {r \in RangeContent : r.empty =>
            r.lower = <<>> /\ r.upper = <<>> /\ r.closed = <<FALSE, FALSE>>}
    \cup [kind : {"bytes"}, bytes : Seq(0 .. 255)]
    \cup [kind : {"date"}, year : Years]
    \cup [kind : {"circle"}, circle : Nat \X Nat \X Nat]
    \cup [kind : {"json"}, n : Nat]

ASSUME ContentsAssumption ==
    IsFiniteSet(Objects) /\ \A o \in Objects : Contents(o) \subseteq Content

VARIABLES heap,     \* the objects
          cache,    \* serializationCache: the text of every object, or None
          touched,  \* history: objects that changed after they were serialized
          changes   \* how many changes there were
memory == <<heap, cache, touched, changes>>

Backslash == 92
DoubleQuote == 34
Open == 123
Close == 125
Comma == 44
None == <<>>            \* no text: every text of an object has characters
NullText == <<78, 85, 76, 76>>
BC == <<32, 66, 67>>
Zone == 43              \* "+00:00" or "Z"
Empty == <<101, 109, 112, 116, 121>>
Leaf(value) == [kind |-> "leaf", value |-> value]
List(entries) == [kind |-> "list", entries |-> entries]

Digits(n) ==
    LET written[k \in 0 .. n] == IF k < 10 THEN <<48 + k>>
                                 ELSE Append(written[k \div 10], 48 + (k % 10))
    IN  written[n]
Pad(n, digits) ==
    LET d == Digits(n) IN [i \in 1 .. digits - Len(d) |-> 48] \o d
DigitOf(c) == IF c > 96 THEN c - 87 ELSE c - 48
Number(text, base) ==
    LET value[i \in 0 .. Len(text)] ==
            IF i = 0 THEN 0 ELSE value[i - 1] * base + DigitOf(text[i])
    IN  value[Len(text)]
Join(texts) == FlattenSeq([i \in DOMAIN texts |->
                    IF i = 1 THEN texts[i] ELSE <<Comma>> \o texts[i]])
Without(text, c) ==
    FlattenSeq([i \in DOMAIN text |-> IF text[i] = c THEN <<>> ELSE <<text[i]>>])

-----------------------------------------------------------------------------
(* Serializers.                                                            *)

Hex(n) == IF n < 10 THEN 48 + n ELSE 87 + n
SerializeByteA(bytes) ==
    <<Backslash, 120>> \o
    FlattenSeq([i \in DOMAIN bytes |-> <<Hex(bytes[i] \div 16), Hex(bytes[i] % 16)>>])

\* Year 0 is 1 BC.  T stands for the rest of the date, which is only padded.
DateText(year, zone) ==
    IF year < 1 THEN Pad((-year) + 1, 4) \o <<84>> \o zone \o BC
    ELSE Pad(year, 4) \o <<84>> \o zone
SerializeDate(year) == DateText(year, <<Zone>>)

SerializeCircle(c) ==
    <<60, 40>> \o Digits(c[1]) \o <<Comma>> \o Digits(c[2]) \o <<41, Comma>>
        \o Digits(c[3]) \o <<62>>

MutantQuote(text) ==
    <<DoubleQuote>> \o FlattenSeq([i \in DOMAIN text |->
        IF text[i] = DoubleQuote THEN <<Backslash, text[i]>> ELSE <<text[i]>>])
    \o <<DoubleQuote>>
Quote(text) ==
    <<DoubleQuote>> \o FlattenSeq([i \in DOMAIN text |->
        IF text[i] \in {Backslash, DoubleQuote} THEN <<Backslash, text[i]>>
        ELSE <<text[i]>>])
    \o <<DoubleQuote>>

\* JSON.stringify({ n: value })
Json(n) == <<Open, DoubleQuote, 110, DoubleQuote, 58>> \o Digits(n) \o <<Close>>

Primitive(m) == CASE m.kind = "text"   -> m.text
                  [] m.kind = "number" -> Digits(m.number)
                  [] m.kind = "bool"   -> IF m.bool THEN <<116>> ELSE <<102>>

\* postgres-range: bounds are quoted where they hold a space; no bound, no text.
BoundText(text) == IF Contains(text, 32) THEN <<DoubleQuote>> \o text \o <<DoubleQuote>>
                   ELSE text
RangeText(range, lower, upper) ==
    IF range.empty THEN Empty
    ELSE <<IF range.closed[1] THEN 91 ELSE 40>> \o BoundText(lower) \o <<Comma>>
         \o BoundText(upper) \o <<IF range.closed[2] THEN 93 ELSE 41>>

\* A call: the object, the stack it is given, and the cache at that moment.  It
\* returns a text, the cache, and whether it did not throw.
Cache == [Objects -> Text]
Calls == [object : Objects, stack : SUBSET Objects, cache : Cache]
Call(o, stack, known) == [object |-> o, stack |-> stack, cache |-> known]
Done(text, known) == [text |-> text, cache |-> known, ok |-> TRUE]
Thrown(known) == [text |-> None, cache |-> known, ok |-> FALSE]

\* In what follows sub is serializeArray() and serializeValue(), one call deeper.

\* toPostgres() of a range writes its bounds with serializeValue().
SerializeBound(sub, bound, stack, known) ==
    IF bound = <<>> THEN Done(<<>>, known)
    ELSE IF bound[1].kind = "ref" THEN sub.value[Call(bound[1].to, stack, known)]
    ELSE Done(Primitive(bound[1]), known)
SerializeRange(sub, o, stack, known) ==
    LET lower == SerializeBound(sub, heap[o].lower, stack, known)
        upper == SerializeBound(sub, heap[o].upper, stack, lower.cache)
    IN  [text |-> RangeText(heap[o], lower.text, upper.text), cache |-> upper.cache,
         ok |-> lower.ok /\ upper.ok]

\* One member of an array, after those in acc: [texts, cache, ok].
Added(acc, text, known) == [texts |-> Append(acc.texts, text), cache |-> known, ok |-> TRUE]
Refused(acc, known) == [texts |-> acc.texts, cache |-> known, ok |-> FALSE]
SerializeNested(sub, acc, o, stack) ==
    LET r == sub.array[Call(o, stack \cup {o}, acc.cache)]
    IN  IF acc.cache[o] # None THEN Added(acc, acc.cache[o], acc.cache)
        ELSE IF o \in stack THEN Refused(acc, acc.cache)
        ELSE IF r.ok THEN Added(acc, r.text, [r.cache EXCEPT ![o] = r.text])
        ELSE Refused(acc, r.cache)
SerializeOther(sub, acc, o, stack) ==
    LET r == sub.value[Call(o, stack, acc.cache)]
    IN  IF r.ok THEN Added(acc, Quote(r.text), r.cache) ELSE Refused(acc, r.cache)
SerializeMember(sub, acc, m, stack) ==
    IF ~acc.ok THEN acc
    ELSE IF m.kind = "null" THEN Added(acc, NullText, acc.cache)
    ELSE IF m.kind \in {"bool", "number"} THEN Added(acc, Primitive(m), acc.cache)
    ELSE IF m.kind = "text" THEN Added(acc, Quote(m.text), acc.cache)
    ELSE IF heap[m.to].kind = "array" THEN SerializeNested(sub, acc, m.to, stack)
    ELSE IF heap[m.to].kind = "bytes"
    THEN Added(acc, <<DoubleQuote, Backslash>> \o SerializeByteA(heap[m.to].bytes)
                    \o <<DoubleQuote>>, acc.cache)
    ELSE SerializeOther(sub, acc, m.to, stack)

SerializeMembers(sub, members, stack, known) ==
    LET done[i \in 0 .. Len(members)] ==
            IF i = 0 THEN [texts |-> <<>>, cache |-> known, ok |-> TRUE]
            ELSE SerializeMember(sub, done[i - 1], members[i], stack)
    IN  done[Len(members)]
SerializeArray(sub, o, stack, known) ==
    LET r == SerializeMembers(sub, heap[o].members, stack, known)
    IN  [text |-> <<Open>> \o Join(r.texts) \o <<Close>>, cache |-> r.cache, ok |-> r.ok]

\* serializeValue(), for an object.
SerializeContent(sub, o, stack, known) ==
    CASE heap[o].kind = "circle" -> Done(SerializeCircle(heap[o].circle), known)
      [] heap[o].kind = "bytes"  -> Done(SerializeByteA(heap[o].bytes), known)
      [] heap[o].kind = "date"   -> Done(SerializeDate(heap[o].year), known)
      [] heap[o].kind = "json"   -> Done(Json(heap[o].n), known)
      [] heap[o].kind = "range"  -> SerializeRange(sub, o, stack, known)
      [] heap[o].kind = "array"  -> SerializeArray(sub, o, stack, known)
SerializeValue(sub, o, stack, known) ==
    LET r == SerializeContent(sub, o, stack \cup {o}, known)
    IN  IF known[o] # None THEN Done(known[o], known)
        ELSE IF o \in stack THEN Thrown(known)
        ELSE IF r.ok THEN Done(r.text, [r.cache EXCEPT ![o] = r.text])
        ELSE r

\* The stack has an object at most once: calls nest no deeper.
Deepest == Cardinality(Objects) + 1
Level(sub) ==
    [array |-> [c \in Calls |-> SerializeArray(sub, c.object, c.stack, c.cache)],
     value |-> [c \in Calls |-> SerializeValue(sub, c.object, c.stack, c.cache)]]
Serializers ==
    LET level[n \in 0 .. Deepest] ==
            IF n = 0 THEN [array |-> [c \in Calls |-> Thrown(c.cache)],
                           value |-> [c \in Calls |-> Thrown(c.cache)]]
            ELSE Level(level[n - 1])
    IN  level[Deepest]
Serialize(o) == Serializers.value[Call(o, {}, cache)]

-----------------------------------------------------------------------------
(* Parsers.                                                                *)

\* One round of the loop of parseEscaped(), which reads on from position i.
Unescape(text, st) ==
    LET i == st.i
        octal == i + 3 <= Len(text) /\ \A d \in 1 .. 3 : text[i + d] \in 48 .. 55
        run == CHOOSE n \in 1 .. Len(text) :
                  /\ \A k \in i .. i + n - 1 : k <= Len(text) /\ text[k] = Backslash
                  /\ i + n > Len(text) \/ text[i + n] # Backslash
    IN  IF i > Len(text) THEN st
        ELSE IF text[i] # Backslash THEN [i |-> i + 1, bytes |-> Append(st.bytes, text[i])]
        ELSE IF octal
        THEN [i |-> i + 4,
              bytes |-> Append(st.bytes, Number(SubSeq(text, i + 1, i + 3), 8))]
        ELSE [i |-> i + run,
              bytes |-> st.bytes \o [k \in 1 .. run \div 2 |-> Backslash]]
ParseEscaped(text) ==
    LET st[n \in 0 .. Len(text)] == IF n = 0 THEN [i |-> 1, bytes |-> <<>>]
                                    ELSE Unescape(text, st[n - 1])
    IN  st[Len(text)].bytes

ParseEncoded(text) == [n \in 1 .. (Len(text) - 2) \div 2 |->
                          Number(SubSeq(text, 2 * n + 1, 2 * n + 2), 16)]
ParseByteA(text) == IF IsPrefix(<<Backslash, 120>>, text) THEN ParseEncoded(text)
                    ELSE ParseEscaped(text)

\* postgres-date: without a zone, a moment of local time.
LocalTime == -9999
IsBC(text) == Len(text) >= 3 /\ SubSeq(text, Len(text) - 2, Len(text)) = BC
WithoutBC(text) == SubSeq(text, 1, Len(text) - 3)
ParseTimestampTz(text) ==
    LET date == IF IsBC(text) THEN WithoutBC(text) ELSE text
        year == Number(SubSeq(date, 1, 4), 10)
    IN  IF Last(date) # Zone THEN LocalTime ELSE IF IsBC(text) THEN -(year - 1) ELSE year
ParseTimestamp(text) ==
    ParseTimestampTz(IF IsBC(text) THEN WithoutBC(text) \o <<Zone>> \o BC
                     ELSE Append(text, Zone))

At(text, c) == CHOOSE i \in DOMAIN text : text[i] = c /\ \A j \in 1 .. i - 1 : text[j] # c
ParsePoint(text) ==
    LET values == SubSeq(text, 2, Len(text) - 1)
        comma == At(values, Comma)
    IN  <<Number(SubSeq(values, 1, comma - 1), 10),
          Number(SubSeq(values, comma + 1, Len(values)), 10)>>
\* The point is what is before the first ")", the radius what follows, without
\* commas and the last character.
ParseCircle(text) ==
    LET end == At(text, 41)
    IN  Append(ParsePoint(SubSeq(text, 2, end)),
               Number(Without(SubSeq(text, end + 1, Len(text) - 1), Comma), 10))

\* The parsers of the registry, by the types of PostgreSQL: those of values and
\* those of the bounds of ranges.  Other types are left as text.
OidParsers ==
    [bool |-> "bool", bytea |-> "bytes", json |-> "json", jsonb |-> "json",
     int2 |-> "number", int4 |-> "number", int8 |-> "number", oid |-> "number",
     xid |-> "number", xid8 |-> "number", float4 |-> "number", float8 |-> "number",
     circle |-> "circle", timestamp |-> "timestamp", timestamptz |-> "timestamptz",
     varchar |-> "text", uuid |-> "text", numeric |-> "text"]
OidRanges ==
    [int4range |-> "number", int8range |-> "number", numrange |-> "number",
     tsrange |-> "timestamp", tstzrange |-> "timestamptz", daterange |-> "text"]

ParseAs(parser, text) ==
    CASE parser = "text"        -> text
      [] parser = "number"      -> Number(text, 10)
      [] parser = "bool"        -> text = <<116>>
      [] parser = "bytes"       -> ParseByteA(text)
      [] parser = "timestamp"   -> ParseTimestamp(text)
      [] parser = "timestamptz" -> ParseTimestampTz(text)
      [] parser = "circle"      -> ParseCircle(text)
      [] parser = "json"        -> Number(SubSeq(text, 6, Len(text) - 1), 10)

ParseBound(text, parser) ==
    LET found == Without(text, DoubleQuote)
    IN  IF found = <<>> THEN <<>> ELSE <<ParseAs(parser, found)>>
ParseRange(text, parser) ==
    LET comma == At(text, Comma)
        bound(from, to) == ParseBound(SubSeq(text, from, to), parser)
    IN  IF text = Empty
        THEN [empty |-> TRUE, lower |-> <<>>, upper |-> <<>>, closed |-> <<FALSE, FALSE>>]
        ELSE [empty |-> FALSE, lower |-> bound(2, comma - 1),
              upper |-> bound(comma + 1, Len(text) - 1),
              closed |-> <<text[1] = 91, text[Len(text)] = 93>>]

Parse(type, text) ==
    IF type \in DOMAIN OidRanges THEN ParseRange(text, OidRanges[type])
    ELSE IF type \in DOMAIN OidParsers THEN ParseAs(OidParsers[type], text)
    ELSE text

NewEntry(st, type, includeEmpty) ==
    IF st.recorded = <<>> /\ ~includeEmpty THEN st
    ELSE [st EXCEPT !.recorded = <<>>, !.entries = Append(@,
            IF st.recorded = NullText /\ ~includeEmpty THEN Nothing
            ELSE Leaf(Parse(type, st.recorded)))]

\* A call of parseInternal(): the text it reads and, in a nested array, the call
\* it returns to.  The position is that of the next character.
ParseInternal(source, caller) ==
    [source |-> source, caller |-> caller, entries |-> <<>>, quote |-> FALSE,
     dimension |-> 0, recorded |-> <<>>,
     position |-> IF source[1] = 91 THEN At(source, 61) + 1 ELSE 1]

\* The nested call returns.  Its position is one-based: the brace is read again.
Return(st) ==
    [st.caller[1] EXCEPT !.dimension = @ + 1,
                         !.entries = Append(@, List(st.entries)),
                         !.position = @ + (st.position - 1) - 2]

\* One round of the loop.
ParseCharacter(st, type) ==
    LET escaped == st.source[st.position] = Backslash
        c == st.source[st.position + (IF escaped THEN 1 ELSE 0)]
        s == [st EXCEPT !.position = @ + (IF escaped THEN 2 ELSE 1)]
        closed == NewEntry([s EXCEPT !.dimension = 0], type, FALSE)
    IN  IF st.position > Len(st.source) THEN st
        ELSE IF c = Open /\ ~st.quote /\ st.dimension = 0
        THEN [s EXCEPT !.dimension = 1]
        ELSE IF c = Open /\ ~st.quote
        THEN ParseInternal(SubSeq(st.source, s.position - 1, Len(st.source)), <<s>>)
        ELSE IF c = Close /\ ~st.quote /\ st.dimension > 1
        THEN [s EXCEPT !.dimension = @ - 1]
        ELSE IF c = Close /\ ~st.quote
        THEN IF st.caller # <<>> THEN Return(closed) ELSE closed
        ELSE IF c = DoubleQuote /\ ~escaped
        THEN [(IF st.quote THEN NewEntry(s, type, TRUE) ELSE s) EXCEPT !.quote = ~st.quote]
        ELSE IF c = Comma /\ ~st.quote THEN NewEntry(s, type, FALSE)
        ELSE [s EXCEPT !.recorded = Append(@, c)]

\* Every character takes a round, the brace that closes a nested array takes two.
ParseArray(text, type) ==
    LET st[n \in 0 .. 2 * Len(text)] == IF n = 0 THEN ParseInternal(text, <<>>)
                                        ELSE ParseCharacter(st[n - 1], type)
    IN  List(st[2 * Len(text)].entries)

-----------------------------------------------------------------------------
(* Results.                                                                *)

\* libpq gives an empty string for a null.
CreateResult(cells) == [i \in DOMAIN cells |->
    IF cells[i].text = <<>> /\ cells[i].isNull THEN Nothing
    ELSE [kind |-> "text", text |-> cells[i].text]]

\* The registry knows an array type by that of its elements.
GetParser(oid, text) ==
    IF oid.array THEN ParseArray(text, oid.type) ELSE Leaf(Parse(oid.type, text))

\* A row keeps the last of the columns with the same name, a tuple all of them.
PGResult(fields, row) ==
    LET tuple == [i \in DOMAIN fields |->
                    IF row[i].kind = "null" THEN Nothing
                    ELSE GetParser(fields[i].oid, row[i].text)]
        last(name) == CHOOSE i \in DOMAIN fields : fields[i].name = name /\
                        \A j \in DOMAIN fields : fields[j].name = name => j <= i
    IN  [tuple |-> tuple,
         row |-> [name \in {fields[i].name : i \in DOMAIN fields} |-> tuple[last(name)]]]

-----------------------------------------------------------------------------
(* The program.                                                            *)

\* The objects o consists of.
Members(o) == CASE heap[o].kind = "array" -> heap[o].members
                [] heap[o].kind = "range" -> heap[o].lower \o heap[o].upper
                [] OTHER -> <<>>
Refs(o) == {m.to : m \in {n \in Range(Members(o)) : n.kind = "ref"}}
Reach(set) == {p \in Objects : \A C \in SUBSET Objects :
    set \subseteq C /\ (\A q \in C : Refs(q) \subseteq C) => p \in C}

Send(o) ==
    /\ cache' = Serialize(o).cache
    /\ UNCHANGED <<heap, touched, changes>>

Change(o, contents) ==
    /\ changes < MaxChanges /\ heap[o] # contents
    /\ heap' = [heap EXCEPT ![o] = contents]
    /\ touched' = touched \cup {p \in Objects : cache[p] # None /\ o \in Reach({p})}
    /\ changes' = changes + 1
    /\ UNCHANGED cache

CodecsInit ==
    /\ heap \in {h \in [Objects -> UNION {Contents(o) : o \in Objects}] :
                    \A o \in Objects : h[o] \in Contents(o)}
    /\ cache = [o \in Objects |-> None]
    /\ touched = {} /\ changes = 0

CodecsNext == \E o \in Objects : Send(o) \/ \E c \in Contents(o) : Change(o, c)

CodecsSpec == CodecsInit /\ [][CodecsNext]_memory

-----------------------------------------------------------------------------
(* What a value is, and how PostgreSQL writes it.                          *)

Cyclic(o) == \E p \in Reach({o}) : p \in Reach(Refs(p))

\* What a member is, and what o is, given what objects are.
MemberMeaning(m, of) == CASE m.kind = "null"   -> Nothing
                          [] m.kind = "text"   -> Leaf(m.text)
                          [] m.kind = "number" -> Leaf(m.number)
                          [] m.kind = "bool"   -> Leaf(m.bool)
                          [] m.kind = "ref"    -> of[m.to]
Meaning(o, of) ==
    LET h == heap[o]
        value(bound) == [i \in DOMAIN bound |-> MemberMeaning(bound[i], of).value]
    IN  CASE h.kind = "bytes"  -> Leaf(h.bytes)
          [] h.kind = "date"   -> Leaf(h.year)
          [] h.kind = "circle" -> Leaf(h.circle)
          [] h.kind = "json"   -> Leaf(h.n)
          [] h.kind = "range"  -> Leaf([empty |-> h.empty, lower |-> value(h.lower),
                                        upper |-> value(h.upper), closed |-> h.closed])
          [] h.kind = "array"  -> List([i \in DOMAIN h.members |->
                                            MemberMeaning(h.members[i], of)])
\* An object that does not contain itself has no longer chains of references.
Denotes(o) ==
    LET known[n \in 0 .. Cardinality(Objects)] ==
            [p \in Objects |-> IF n = 0 THEN Nothing ELSE Meaning(p, known[n - 1])]
    IN  known[Cardinality(Objects)][o]

\* The columns a value of o, or the elements of an array, may be stored in:
\* those of one type, as PostgreSQL takes no others.
ColumnsOf(kind) ==
    CASE kind = "text"   -> {"varchar", "text"}
      [] kind = "number" -> {"int2", "int4", "int8", "oid", "xid", "xid8", "float4", "float8"}
      [] kind = "date"   -> {"timestamp", "timestamptz"}
      [] kind = "json"   -> {"json", "jsonb"}
      [] kind = "bytes"  -> {"bytea"}
      [] kind \in {"bool", "circle"} -> {kind}
KindOf(m) == IF m.kind = "ref" THEN heap[m.to].kind ELSE m.kind
RangesOf(o) == {type \in {"numrange", "tsrange", "tstzrange"} :
    \A m \in Range(Members(o)) : KindOf(m) = IF type = "numrange" THEN "number" ELSE "date"}
Types(o) ==
    LET all == Reach({o})
        elements == UNION {Range(Members(p)) : p \in {q \in all : heap[q].kind = "array"}}
        types(m) == IF KindOf(m) = "range" THEN RangesOf(m.to) ELSE ColumnsOf(KindOf(m))
    IN  IF heap[o].kind = "array"
        THEN {t \in DOMAIN OidParsers \cup DOMAIN OidRanges \cup {"text"} :
                \A m \in elements : KindOf(m) \notin {"null", "array"} => t \in types(m)}
        ELSE types([kind |-> "ref", to |-> o])

\* bytea_output = 'escape'
PgEscape(bytes) == FlattenSeq([i \in DOMAIN bytes |->
    CASE bytes[i] = Backslash -> <<Backslash, Backslash>>
      [] bytes[i] \notin 32 .. 126 ->
            <<Backslash, 48 + bytes[i] \div 64, 48 + ((bytes[i] \div 8) % 8),
              48 + (bytes[i] % 8)>>
      [] OTHER -> <<bytes[i]>>])
\* A timestamp without time zone has none.
PgLeaf(value, type, escape) ==
    LET text(v) ==
            CASE type \in ColumnsOf("text") -> v
              [] type \in ColumnsOf("number") \cup {"numrange"} -> Digits(v)
              [] type = "bool"   -> IF v THEN <<116>> ELSE <<102>>
              [] type = "bytea"  -> IF escape THEN PgEscape(v) ELSE SerializeByteA(v)
              [] type = "circle" -> SerializeCircle(v)
              [] type \in ColumnsOf("json") -> Json(v)
              [] type \in {"timestamptz", "tstzrange"} -> SerializeDate(v)
              [] type \in {"timestamp", "tsrange"} ->
                    DateText(v, <<>>)
        bound(b) == IF b = <<>> THEN <<>> ELSE text(b[1])
    IN  IF type \in {"numrange", "tsrange", "tstzrange"}
        THEN RangeText(value, bound(value.lower), bound(value.upper))
        ELSE text(value)
\* PostgreSQL quotes an element only where it must.
Specials == {Backslash, DoubleQuote, Open, Close, Comma, 32}
PgElement(text) ==
    IF text \in {<<>>, NullText} \/ \E i \in DOMAIN text : text[i] \in Specials
    THEN Quote(text) ELSE text
PgMember(m, type, escape, texts) ==
    CASE m.kind = "null"   -> NullText
      [] m.kind = "text"   -> PgElement(PgLeaf(m.text, type, escape))
      [] m.kind = "number" -> PgElement(PgLeaf(m.number, type, escape))
      [] m.kind = "bool"   -> PgElement(PgLeaf(m.bool, type, escape))
      [] m.kind = "ref"    -> IF heap[m.to].kind = "array" THEN texts[m.to]
                              ELSE PgElement(texts[m.to])
PgValue(o, type, escape, texts) ==
    IF heap[o].kind # "array" THEN PgLeaf(Denotes(o).value, type, escape)
    ELSE <<Open>> \o Join([i \in DOMAIN heap[o].members |->
                            PgMember(heap[o].members[i], type, escape, texts)])
         \o <<Close>>
PgText(o, type, escape) ==
    LET known[n \in 0 .. Cardinality(Objects)] ==
            [p \in Objects |-> IF n = 0 THEN None ELSE PgValue(p, type, escape, known[n - 1])]
    IN  known[Cardinality(Objects)][o]

\* What a client reads where a column has this text, after one that is null and
\* has the same name.
Read(oid, text) ==
    PGResult(<<[name |-> "x", oid |-> [oid EXCEPT !.array = FALSE]],
               [name |-> "x", oid |-> oid]>>,
             CreateResult(<<[text |-> <<>>, isNull |-> TRUE],
                            [text |-> text, isNull |-> FALSE]>>))

\* A backslash right before a byte written in octal is misread: see the README.
Escapable(bytes) == \A i \in DOMAIN bytes :
    i > 1 /\ bytes[i - 1] = Backslash => bytes[i] \in 32 .. 126

-----------------------------------------------------------------------------
(* Properties.                                                             *)

\* An object none of whose parts changed after it was first serialized comes
\* back as it is, whatever was sent before and however deep it nests: nulls and
\* the text "NULL", empty texts, quotes, backslashes, braces and commas are told
\* apart, in what serialize() writes and in what PostgreSQL does.  It is refused
\* only if it contains itself, and not for having the same part twice.
RoundTrip == \A o \in Objects : Reach({o}) \cap touched = {} =>
    LET sent == Serialize(o)
        v == Denotes(o)
        back == [tuple |-> <<Nothing, v>>, row |-> [x |-> v]]
        escapable == \A p \in Reach({o}) : heap[p].kind = "bytes" => Escapable(heap[p].bytes)
    IN  /\ sent.ok = ~Cyclic(o)
        /\ sent.ok => \A type \in Types(o) :
            LET oid == [array |-> heap[o].kind = "array", type |-> type]
            IN  /\ Read(oid, sent.text) = back
                /\ \A escape \in {FALSE, escapable} :
                    Read(oid, PgText(o, type, escape)) = back
=============================================================================
