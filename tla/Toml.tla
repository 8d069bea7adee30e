-------------------------------- MODULE Toml --------------------------------
(***************************************************************************)
(* mytoml/to_toml.cpp and mytoml/parse_toml.cpp: Lua values to TOML and     *)
(* back.  The text in between is toml11's, which is external: it is taken   *)
(* to read the document that it wrote of a table.  Of any other value it     *)
(* writes no document, but the value alone, and reading that gives an error *)
(* or something else.                                                       *)
(*                                                                          *)
(* A value is a pair of its type and its contents; a table is a function    *)
(* from keys to values.  lua_next gives the keys of a table in some order,  *)
(* of which the code knows nothing: order is a sequence of all keys.        *)
(***************************************************************************)
EXTENDS Integers, Sequences, SequencesExt, FiniteSets, Functions

Num(n) == <<"integer", n>>
Str(s) == <<"string", s>>

Error  == <<"error", "exception">>   \* l_to_toml returns nil and a message
Raised == <<"error", "lua">>         \* lua_next raises "invalid key to 'next'"
Hang   == <<"error", "hang">>        \* lua_next goes back and never ends
Misread == <<"error", "text">>       \* not a document, or one of another table

IsError(v) == v[1] = "error"
IsTable(v) == v[1] = "table"
IsInteger(k) == k[1] = "integer"
IsString(k) == k[1] = "string"

\* the string that lua_tolstring makes of a number
TextOf(n) == Str(ToString(n))

At(s, k) == CHOOSE i \in DOMAIN s : s[i] = k

Values(f) == {f[k] : k \in DOMAIN f}
FirstError(vs) ==
    LET at == {i \in DOMAIN vs : IsError(vs[i])}
    IN vs[CHOOSE i \in at : \A j \in at : i <= j]

-----------------------------------------------------------------------------
(* to_toml.cpp                                                              *)

\* lua_isinteger, positive, and no gap
IsArray(keys) ==
    \A i \in DOMAIN keys : IsInteger(keys[i]) /\ keys[i][2] \in 1..Len(keys)

RECURSIVE export_value(_, _), Entries(_, _, _, _, _)

\* The entries of a table with string keys, from the i-th key on.  A number
\* passes lua_isstring, and lua_tolstring changes it to a string on the stack,
\* where lua_next then looks for it.
Entries(f, keys, i, t, order) ==
    IF i > Len(keys) THEN <<"table", t>>
    ELSE LET k    == keys[i]
             name == IF IsString(k) THEN k ELSE TextOf(k[2])
             v    == export_value(f[k], order)
         IN IF ~(IsString(k) \/ IsInteger(k)) THEN Error
            ELSE IF IsError(v) THEN v
            ELSE IF name \notin Range(keys) THEN Raised
            ELSE IF At(keys, name) < i THEN Hang
            ELSE Entries(f, keys, At(keys, name) + 1,
                         [n \in DOMAIN t \cup {name} |-> IF n \in DOMAIN t THEN t[n] ELSE v],
                         order)

\* the elements of an array
Elements(f, keys, order) ==
    LET vs == [i \in DOMAIN keys |-> export_value(f[Num(i)], order)]
    IN IF \E i \in DOMAIN vs : IsError(vs[i]) THEN FirstError(vs) ELSE <<"array", vs>>


export_table(f, order) ==
    LET keys == SelectSeq(order, LAMBDA k : k \in DOMAIN f) IN
    IF keys = <<>> THEN <<"table", <<>>>>
    ELSE IF ~IsInteger(keys[1]) THEN Entries(f, keys, 1, <<>>, order)
    ELSE IF IsArray(keys) THEN Elements(f, keys, order)
    ELSE Error

\* lua_toboolean returns an int, and toml11 makes an integer of it
export_value(v, order) ==
    CASE v[1] = "boolean" -> Num(v[2])
      [] v[1] = "number"  -> <<"floating", v[2]>>
      [] v[1] \in {"integer", "string"} -> v
      [] IsTable(v) -> export_table(v[2], order)
      [] OTHER -> Error

-----------------------------------------------------------------------------
(* parse_toml.cpp                                                           *)

\* toml::parse_str of what toml::format wrote.  The text of a table is a
\* document.  A number or a string alone is a syntax error, and [5], the text
\* of an array, is the header of an empty table with the name 5.
parse_str(v) == IF IsTable(v) \/ IsError(v) THEN v ELSE Misread

RECURSIVE push_toml(_)
push_toml(v) ==
    CASE v[1] = "array" ->
            <<"table", [k \in {Num(i) : i \in DOMAIN v[2]} |-> push_toml(v[2][k[2]])]>>
      [] IsTable(v) -> <<"table", [k \in DOMAIN v[2] |-> push_toml(v[2][k])]>>
      [] v[1] = "floating" -> <<"number", v[2]>>
      [] OTHER -> v

-----------------------------------------------------------------------------
(* What a value looks like when it comes back                               *)

RECURSIVE Exportable(_)
Exportable(v) ==
    \/ v[1] \in {"boolean", "number", "integer", "string"}
    \/ /\ IsTable(v)
       /\ \/ \A k \in DOMAIN v[2] : IsString(k)
          \/ DOMAIN v[2] = {Num(i) : i \in 1..Cardinality(DOMAIN v[2])}
       /\ \A x \in Values(v[2]) : Exportable(x)

\* a table with a number and the string that the number prints as
RECURSIVE Clashes(_)
Clashes(v) ==
    /\ IsTable(v)
    /\ \/ \E k \in DOMAIN v[2] : IsInteger(k) /\ TextOf(k[2]) \in DOMAIN v[2]
       \/ \E x \in Values(v[2]) : Clashes(x)

RECURSIVE BooleansAsIntegers(_)
BooleansAsIntegers(v) ==
    IF IsTable(v) THEN <<"table", [k \in DOMAIN v[2] |-> BooleansAsIntegers(v[2][k])]>>
    ELSE IF v[1] = "boolean" THEN Num(v[2])
    ELSE v

\* what a document can say: a table of strings
IsDocument(v) == IsTable(v) /\ \A k \in DOMAIN v[2] : IsString(k)

\* Whatever order lua_next gives the keys in, a table of strings comes back as
\* it was, arrays and tables in it included, but for its booleans, which come
\* back as integers.  A table that mixes indexes with other keys, at any depth,
\* is refused and never written in part (to_toml.cpp:18-117,
\* parse_toml.cpp:11-84).  An array or a leaf by itself is written, but its
\* text is no document, and nothing is said of what comes back.  A table with
\* both 1 and "1" is left out: it may be written without one of them, or
\* forever.
ComesBack(v, order) ==
    LET toml == export_value(v, order)
    IN ~Clashes(v) =>
          /\ ~Exportable(v) => toml \in {Error, Raised}
          /\ Exportable(v) /\ IsDocument(v) =>
                push_toml(parse_str(toml)) = BooleansAsIntegers(v)

=============================================================================
