------------------------------- MODULE MCCodecs -------------------------------
EXTENDS Codecs

Ref(o) == [kind |-> "ref", to |-> o]
TextOf(t) == [kind |-> "text", text |-> t]
Array(members) == [kind |-> "array", members |-> members]
MCRange(lower, upper, lowerClosed, upperClosed) ==
    [kind |-> "range", empty |-> FALSE, lower |-> lower, upper |-> upper,
     closed |-> <<lowerClosed, upperClosed>>]

\* "", "NULL", and every character that means something to an array.
Special == TextOf(<<DoubleQuote, Backslash, Open, Comma, Close, 32>>)
Firsts == {Nothing, Special, Ref("b"), Ref("leaf")}
Seconds == {TextOf(<<>>), TextOf(NullText), Ref("a"), Ref("b")}
Bytes == {<<0, 92, 200>>, <<92, 92, 48, 48, 49, 0>>, <<92, 0>>}

\* "a" and "b" are arrays, of which "a" is large; "leaf" is any other object.
MCContents(o) ==
    CASE o = "a" -> {Array(<<m, n>>) : m \in Firsts, n \in Seconds}
                    \cup {Array(<<>>),
                          Array(<<[kind |-> "bool", bool |-> TRUE], Nothing,
                                  [kind |-> "bool", bool |-> FALSE]>>),
                          Array(<<[kind |-> "number", number |-> 42], Ref("b")>>)}
      [] o = "b" -> {Array(<<>>), Array(<<Ref("a")>>), Array(<<Ref("leaf"), Nothing>>),
                     Array(<<TextOf(<<120>>), TextOf(NullText)>>),
                     Array(<<[kind |-> "number", number |-> 7]>>),
                     MCRange(<<>>, <<Ref("leaf")>>, FALSE, TRUE),
                     MCRange(<<[kind |-> "number", number |-> 1]>>,
                             <<[kind |-> "number", number |-> 25]>>, TRUE, FALSE),
                     [MCRange(<<>>, <<>>, FALSE, FALSE) EXCEPT !.empty = TRUE]}
      [] o = "leaf" -> {[kind |-> "bytes", bytes |-> b] : b \in Bytes}
                       \cup {[kind |-> "date", year |-> y] : y \in {0, 2024}}
                       \cup {[kind |-> "json", n |-> 1], [kind |-> "circle", circle |-> <<1, 20, 3>>]}
=============================================================================
