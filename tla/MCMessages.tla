----------------------------- MODULE MCMessages -----------------------------
(***************************************************************************)
(* Message types with a field of every kind, and values, literals and      *)
(* steps at the boundaries of the integer types.                           *)
(***************************************************************************)
EXTENDS Messages, TLC

Fd(name, number, card, key, kind, type) ==
    [name |-> name, number |-> number, card |-> card, key |-> key, kind |-> kind,
     type |-> type, presence |-> card = "one" /\ kind = "MESSAGE"]

TheMsgTypes ==
    "Any" :> {}
    @@ "Sub" :> {Fd("n", 1, "one", "", "INT32", ""), Fd("l", 2, "list", "", "BOOL", "")}
    @@ "One" :> {Fd("i", 1, "one", "", "SFIXED32", ""), Fd("u", 2, "one", "", "UINT64", ""),
                 Fd("f", 3, "one", "", "FLOAT", ""), Fd("e", 4, "one", "", "ENUM", "E"),
                 Fd("s", 5, "one", "", "STRING", ""), Fd("sub", 6, "one", "", "MESSAGE", "Sub"),
                 Fd("any", 7, "one", "", "MESSAGE", "Any")}
    @@ "List" :> {Fd("i", 1, "list", "", "SINT32", ""), Fd("u", 2, "list", "", "FIXED64", ""),
                  Fd("d", 3, "list", "", "DOUBLE", ""), Fd("e", 4, "list", "", "ENUM", "E"),
                  Fd("s", 5, "list", "", "STRING", ""), Fd("b", 6, "list", "", "BYTES", ""),
                  Fd("m", 7, "list", "", "MESSAGE", "Sub")}
    @@ "Map" :> {Fd("i", 1, "map", "INT64", "BOOL", ""), Fd("u", 2, "map", "UINT64", "STRING", ""),
                 Fd("j", 3, "map", "SINT32", "ENUM", "E"), Fd("v", 4, "map", "FIXED32", "INT32", ""),
                 Fd("b", 5, "map", "BOOL", "INT64", ""), Fd("s", 6, "map", "STRING", "MESSAGE", "Sub"),
                 Fd("e", 7, "map", "INT32", "ENUM", "None")}

TheEnumTypes == "E" :> {0, 1} @@ "None" :> {}

TheRoots == {"One", "List", "Map"}

Strings == {Word("a"), Word("n"), Word("true"), Word("i"), Decimal(1), Numeral(3), Plus(3)}

TheUtf8 == [s \in Strings |-> IF s = Word("n") THEN <<1, 0>> ELSE <<1>>]

SubMsg   == Message("Sub", "l" :> [t |-> "list", elems |-> <<Bool(TRUE)>>])
IntV(n)   == Num("int64", n)
Float(h) == Num("float64", h)

MaxI == High("int64")
MaxU == High("uint64")

Scalars == {IntV(3), IntV(High("int32") + 2), Num("uint64", MaxU), Float(3), Float(2 * (MaxU + 1)),
            Bool(TRUE), Text("string", Word("a")), Text("bytes", Word("n")), Num("null", 0),
            Num("duration", 2), SubMsg}

TheSimple == Scalars \cup {
    Message("One", <<>>), Message("Any", <<>>), Message("Any", "content" :> SubMsg),
    [t |-> "opaque"]}           \* a list of the scope, which is no Go slice

\* List literals inside list literals: slices of int32 and of enum numbers.
Literals == {Slice(T, <<Num(T, 1), Num(T, -1)>>) : T \in {"int32", "enum"}}

Kinds == {"INVALID", "DOUBLE", "FLOAT", "UINT64", "FIXED32", "SINT32", "SFIXED32", "SINT64",
          "BOOL", "STRING", "BYTES", "ENUM", "MESSAGE", "FIXED64"}

Named_(kind) == CASE kind = "ENUM" -> {"E", "None", ""}
                  [] kind = "MESSAGE" -> {"Sub", "Unknown"}
                  [] kind = "INVALID" -> {"", "Sub"}
                  [] OTHER -> {""}

TheLists ==
    UNION {{[kind |-> k, type |-> n, elems |-> e] :
               n \in Named_(k), e \in {<<x>> : x \in Scalars \cup Literals}
                                        \cup {<<>>, <<IntV(3), IntV(5)>>}} :
           k \in Kinds}

\* Keys that a double or an int32 does not tell apart, words and their numerals.
TheMaps ==
    UNION {{[key |-> p[1], kind |-> p[2], type |-> p[3], pairs |-> q] : q \in
              {<<>>, <<<<p[4], p[6]>>>>, <<<<p[4], p[6]>>, <<p[5], p[7]>>>>}} : p \in {
        <<"INT64", "BOOL", "", IntV(MaxI), IntV(-1 - MaxI), Bool(TRUE), Bool(FALSE)>>,
        <<"INT64", "INT32", "", IntV(1), IntV(1 + 2 ^ W32), IntV(3), IntV(4)>>,
        <<"SINT64", "ENUM", "E", Float(3), IntV(2), IntV(1), IntV(0)>>,
        <<"SINT32", "ENUM", "E", IntV(1), Float(3), IntV(1), IntV(0)>>,
        <<"UINT64", "STRING", "", Num("uint64", MaxU), Num("uint64", 0), Text("string", Word("a")), Text("string", Word("n"))>>,
        <<"FIXED32", "INT32", "", IntV(3), IntV(15), IntV(3), IntV(4)>>,
        <<"BOOL", "INT64", "", Bool(TRUE), Bool(FALSE), IntV(3), IntV(4)>>,
        <<"STRING", "MESSAGE", "Sub", Text("string", Decimal(1)), Text("string", Word("a")), SubMsg, Message("Sub", <<>>)>>,
        <<"STRING", "BOOL", "", Slice("int32", <<Num("int32", 3)>>), IntV(3), Bool(TRUE), Bool(FALSE)>>,
        <<"STRING", "BOOL", "", IntV(-1), IntV(MaxI), Bool(TRUE), Bool(FALSE)>>,
        <<"INVALID", "INVALID", "", IntV(1), Text("string", Word("a")), IntV(3), IntV(4)>>,
        <<"BYTES", "BOOL", "", Text("bytes", Word("a")), Text("bytes", Word("n")), Bool(TRUE), Bool(TRUE)>>}}

\* All doubles that matter are representable: small ones, and the powers of two at
\* and beyond the ends of int64 and uint64.
TheSteps ==
    {[by |-> "string", s |-> s] : s \in {Word("a"), Word("i"), Word("l"), Word("n"), Word("sub"),
        Word("true"), Word("False"), Decimal(0), Decimal(1), Decimal(MaxI),
        Decimal(-1 - MaxI), Decimal(MaxU), Decimal(MaxU + 1), Numeral(3), Plus(3)}}
    \cup {[by |-> "number", h |-> h] : h \in {0, 2, 3, 4, 6, 8, 10, 12, 14, -2, -2 * (MaxI + 1),
        2 * (MaxI + 1), 2 * (MaxU + 1)}}
    \cup {[by |-> "bool", b |-> b] : b \in BOOLEAN} \cup {[by |-> "null"]}
=============================================================================
