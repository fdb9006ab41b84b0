-------------------------------- MODULE Proto --------------------------------
(***************************************************************************)
(* Go values, protobuf fields and the conversions between them: type.go    *)
(* and the list and map literals of eval.go.                               *)
(*                                                                         *)
(* A value has a Go type t and a payload.  Integers have the widths W8, W32*)
(* and W64, which stand for 32 and 64 bits; a float is the number of its   *)
(* halves, with the precision P32 or P64.  A string is a word, a numeral   *)
(* (decimal, with a sign, or in another notation) or made of code points.  *)
(***************************************************************************)
EXTENDS Integers, Sequences, FiniteSets, Functions, FiniteSetsExt

CONSTANTS
    W8, W32, W64,   \* bits of integers
    P32, P64,       \* bits of precision of float32 and float64
    MaxRune,        \* the greatest code point
    MsgTypes,       \* the fields of every message type
    EnumTypes,      \* the numbers of every enum type
    Utf8            \* the bytes of every string

ASSUME WidthAssumption ==
    /\ W8 \in Nat \ {0} /\ W8 <= W32 /\ W32 < P64 /\ P64 < W64 - 1
    /\ P32 \in Nat \ {0} /\ P32 < W32
    /\ MaxRune \in 1..(2 ^ (W32 - 1) - 2)

Signed   == {"int32", "int64", "enum", "null", "duration"}
Unsigned == {"uint8", "uint32", "uint64"}
Ints     == Signed \cup Unsigned
Floats   == {"float32", "float64"}

Bits(T) == CASE T \in {"int64", "uint64", "duration"} -> W64
             [] T = "uint8" -> W8
             [] OTHER       -> W32
Low(T)  == IF T \in Signed THEN -(2 ^ (Bits(T) - 1)) ELSE 0
High(T) == Low(T) + 2 ^ Bits(T) - 1

Word(w)    == [word |-> w]
Decimal(n) == [dec |-> n]
Plus(n)    == [plus |-> n]          \* with a sign
Numeral(n) == [num |-> n]           \* hexadecimal, with underscores, and so on
Runes(s)   == [runes |-> s]         \* string(s) for a list of code points

\* string(n): an integer that is no code point becomes the replacement character,
\* here MaxRune (surrogates are left out).
Rune(n) == IF n \in 0..MaxRune THEN n ELSE MaxRune

Num(T, n)     == [t |-> T, v |-> n]
Bool(b)       == [t |-> "bool", b |-> b]
Text(T, s)    == [t |-> T, s |-> s]                     \* a string or bytes
Message(T, f) == [t |-> T, fields |-> f]                \* f: fields that are set
Slice(T, s)   == [t |-> "slice", of |-> T, elems |-> s]
GoMap(K, T, e) == [t |-> "gomap", key |-> K, of |-> T, entries |-> e]

Fail  == [t |-> "fail"]             \* an error is returned
Panic == [t |-> "panic"]

-----------------------------------------------------------------------------
(***************************************************************************)
(* Conversions of the Go language and of reflect.                          *)
(***************************************************************************)

Wrap(T, n) == Low(T) + ((n - Low(T)) % (2 ^ Bits(T)))

Sign(n) == IF n < 0 THEN -1 ELSE 1

\* The number nearest to n with p bits of precision; even when two are.
RoundTo(p, n) ==
    LET m    == n * Sign(n)
        unit == Min({2 ^ e : e \in {e \in 0..(2 * W64) : m < 2 ^ (p + e)}})
        q    == m \div unit
        rest == 2 * (m - q * unit)
        up   == rest > unit \/ (rest = unit /\ q % 2 = 1)
    IN  Sign(n) * unit * (IF up THEN q + 1 ELSE q)

Truncated(h) == Sign(h) * ((h * Sign(h)) \div 2)

\* T(x) for a float of h halves.  Out of range the result depends on the machine:
\* arm64 saturates, amd64 yields the least integer, or cuts an unsigned one.
ToInteger(T, h, saturates) ==
    LET n == Truncated(h)
    IN  IF n \in Low(T)..High(T) THEN n
        ELSE IF saturates THEN (IF n < 0 THEN Low(T) ELSE High(T))
        ELSE IF T \in Unsigned /\ n \in Low("int64")..High("int64") THEN Wrap(T, n)
        ELSE Low(T)

ToFloat(T, h) == RoundTo(IF T = "float32" THEN P32 ELSE P64, h)

\* The Go type of a value, as far as conversions depend on it: a slice of int32 is
\* one of runes.
GoType(x) == IF x.t = "slice" /\ x.of = "int32" THEN "runes" ELSE x.t

ConvertibleTo(S, T) ==
    \/ T = "any" \/ S = T
    \/ S \in Ints \cup Floats /\ T \in Ints \cup Floats
    \/ S \in Ints \cup {"runes"} /\ T = "string"
    \/ {S, T} = {"string", "bytes"}

\* reflect converts to and from floats by way of 64 bits.
Convert(x, T, saturates) ==
    CASE T = "any" \/ x.t = T -> x
      [] x.t \in Ints /\ T \in Ints     -> Num(T, Wrap(T, x.v))
      [] x.t \in Ints /\ T \in Floats   -> Num(T, ToFloat(T, ToFloat("float64", 2 * x.v)))
      [] x.t \in Ints /\ T = "string"   -> Text(T, Runes(<<Rune(x.v)>>))
      [] GoType(x) = "runes"           ->
            Text(T, Runes([i \in DOMAIN x.elems |-> Rune(x.elems[i].v)]))
      [] x.t \in Floats /\ T \in Floats -> Num(T, ToFloat(T, x.v))
      [] x.t \in Floats /\ T \in Ints   ->
            Num(T, Wrap(T, ToInteger(IF T \in Signed THEN "int64" ELSE "uint64", x.v, saturates)))
      [] OTHER -> Text(T, x.s)

-----------------------------------------------------------------------------
(***************************************************************************)
(* getProtoType and getProtoMapKeyType: the Go type for a protobuf type,   *)
(* "bad" for none.                                                         *)
(***************************************************************************)

KeyKinds == {"INT64", "UINT64", "INT32", "FIXED64", "FIXED32", "BOOL", "STRING", "UINT32",
             "SFIXED32", "SFIXED64", "SINT32", "SINT64"}

\* A message type is its own Go type; an enum without constants is refused.
ProtoType(kind, name) ==
    CASE name # "" ->
            (CASE kind = "MESSAGE" /\ name \in DOMAIN MsgTypes -> name
               [] kind = "ENUM" /\ name \in DOMAIN EnumTypes /\ EnumTypes[name] # {} -> "enum"
               [] OTHER -> "bad")
      [] kind = "INVALID" -> "any"
      [] kind = "DOUBLE"  -> "float64"
      [] kind = "FLOAT"   -> "float32"
      [] kind \in {"INT64", "SFIXED64", "SINT64"} -> "int64"
      [] kind \in {"UINT64", "FIXED64"}           -> "uint64"
      [] kind \in {"INT32", "SFIXED32", "SINT32"} -> "int32"
      [] kind \in {"UINT32", "FIXED32"}           -> "uint32"
      [] kind = "BOOL"    -> "bool"
      [] kind = "STRING"  -> "string"
      [] kind = "BYTES"   -> "bytes"
      [] OTHER -> "bad"

MapKeyType(kind) ==
    IF kind \in KeyKinds \cup {"INVALID"} THEN ProtoType(kind, "") ELSE "bad"

\* A type that is named without a kind is a message type.
LiteralType(kind, name) ==
    ProtoType(IF kind = "INVALID" /\ name # "" THEN "MESSAGE" ELSE kind, name)

-----------------------------------------------------------------------------
(***************************************************************************)
(* Literals, from the values of their elements, keys and entries.          *)
(***************************************************************************)

ListLiteral(kind, name, xs, saturates) ==
    LET T == LiteralType(kind, name)
    IN  IF T # "bad" /\ \A i \in DOMAIN xs : ConvertibleTo(GoType(xs[i]), T)
        THEN Slice(T, [i \in DOMAIN xs |-> Convert(xs[i], T, saturates)])
        ELSE Fail

\* Keys that are the same once converted are duplicates.
MapLiteral(keyKind, kind, name, pairs, saturates) ==
    LET K    == MapKeyType(keyKind)
        T    == LiteralType(kind, name)
        key  == [i \in DOMAIN pairs |-> Convert(pairs[i][1], K, saturates)]
        fits == \A i \in DOMAIN pairs : /\ ConvertibleTo(GoType(pairs[i][1]), K)
                                        /\ ConvertibleTo(GoType(pairs[i][2]), T)
    IN  IF "bad" \notin {K, T} /\ fits /\ IsInjective(key)
        THEN GoMap(K, T, {<<key[i], Convert(pairs[i][2], T, saturates)>> : i \in DOMAIN pairs})
        ELSE Fail

-----------------------------------------------------------------------------
(***************************************************************************)
(* go2protofd and the setting of the field: the possible contents of field *)
(* fd when it is given x.                                                  *)
(***************************************************************************)

FieldType(fd) == ProtoType(fd.kind, fd.type)
KeyType(fd)   == MapKeyType(fd.key)

\* reflect.Index on a slice; bytes are a slice, too.
Elements(x) ==
    IF x.t = "bytes" THEN Slice("uint8", [i \in DOMAIN Utf8[x.s] |-> Num("uint8", Utf8[x.s][i])])
    ELSE x

\* A mistake: elements are appended as they are.
ListFieldRaw(x, fd, saturates) ==
    IF x.t \notin {"slice", "bytes"} \/ FieldType(fd) = "bad" THEN {Fail}
    ELSE IF Elements(x).elems # <<>> /\ ~ConvertibleTo(Elements(x).of, FieldType(fd)) THEN {Fail}
    ELSE {[t |-> "list", elems |-> Elements(x).elems]}

\* The type of elements is that of the slice: those of the type any fit nowhere.
ListField(x, fd, saturates) ==
    LET T == FieldType(fd)
        s == Elements(x)
    IN  IF x.t \notin {"slice", "bytes"} \/ T = "bad" THEN {Fail}
        ELSE IF s.elems # <<>> /\ ~ConvertibleTo(s.of, T) THEN {Fail}
        ELSE {[t |-> "list", elems |->
                  [i \in DOMAIN s.elems |-> Convert(s.elems[i], T, saturates)]]}

\* A mistake: values are restricted to the types of keys.
MapFieldKeyed(x, fd, saturates) ==
    IF x.t # "gomap" \/ "bad" \in {MapKeyType(fd.key), MapKeyType(fd.kind)} THEN {Fail}
    ELSE IF x.entries # {} /\ ~(ConvertibleTo(x.key, KeyType(fd))
                                   /\ ConvertibleTo(x.of, MapKeyType(fd.kind))) THEN {Fail}
    ELSE {[t |-> "map", entries |-> {<<Convert(e[1], KeyType(fd), saturates),
                                       Convert(e[2], FieldType(fd), saturates)>> : e \in x.entries}]}

\* Keys that the conversion makes equal replace each other in any order.
MapField(x, fd, saturates) ==
    LET K == KeyType(fd)
        T == FieldType(fd)
        pairs  == {<<Convert(e[1], K, saturates), Convert(e[2], T, saturates)>> : e \in x.entries}
        keys   == {p[1] : p \in pairs}
        chosen == {c \in SUBSET pairs : \A k \in keys : Cardinality({p \in c : p[1] = k}) = 1}
    IN  IF x.t # "gomap" \/ "bad" \in {K, T} THEN {Fail}
        ELSE IF x.entries # {} /\ ~(ConvertibleTo(x.key, K) /\ ConvertibleTo(x.of, T)) THEN {Fail}
        ELSE {[t |-> "map", entries |-> c] : c \in chosen}

\* A message field takes a message, and panics when it is of another type.
SingleField(x, fd, saturates) ==
    CASE fd.kind = "MESSAGE" ->
            (IF x.t = fd.type THEN {x} ELSE IF x.t \in DOMAIN MsgTypes THEN {Panic} ELSE {Fail})
      [] OTHER ->
            IF FieldType(fd) # "bad" /\ ConvertibleTo(GoType(x), FieldType(fd))
            THEN {Convert(x, FieldType(fd), saturates)} ELSE {Fail}

AsField(x, fd, saturates) ==
    CASE fd.card = "list" -> ListField(x, fd, saturates)
      [] fd.card = "map"  -> MapField(x, fd, saturates)
      [] OTHER            -> SingleField(x, fd, saturates)
=============================================================================
