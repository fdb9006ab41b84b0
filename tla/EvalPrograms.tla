---------------------------- MODULE EvalPrograms ----------------------------
(***************************************************************************)
(* Programs for the model checker: how to write the nodes of a Value tree, *)
(* and the message they are evaluated on, with a list, a map and a         *)
(* submessage.                                                             *)
(***************************************************************************)
EXTENDS Integers, Sequences, TLC, Values

Blank == [kind |-> "value", scope |-> <<>>, drop |-> 0, args |-> <<>>,
          kids |-> <<>>, n |-> 0, val |-> Nil, typ |-> "any", keyTyp |-> "any",
          names |-> <<>>, code |-> "", key |-> ""]

Of(kind, kids)     == [Blank EXCEPT !.kind = kind, !.kids = kids]
Const_(v)          == [Blank EXCEPT !.kind = "const", !.val = v]
ArgOf(n)           == [Blank EXCEPT !.kind = "arg", !.n = n]
Jump(kind, n)      == [Blank EXCEPT !.kind = kind, !.n = n]
Code(code, n, key) == [Blank EXCEPT !.kind = "program", !.code = code, !.n = n,
                                    !.key = key, !.val = Number(7)]
In(path, node)     == [node EXCEPT !.scope = <<path>>]
With(args, node)   == [node EXCEPT !.args = args]
Dropping(n, node)  == [node EXCEPT !.drop = n]

\* Programs that are evaluated twice, with the same environment, and once.
ProgA(nodes, args) == [nodes |-> nodes, args |-> args, evals |-> 2]
Prog(nodes)        == ProgA(nodes, <<>>)
Once(nodes)        == [Prog(nodes) EXCEPT !.evals = 1]

True_  == Const_(Bool(TRUE))
False_ == Const_(Bool(FALSE))
Null_  == Const_(Null)
One    == Const_(Number(1))
Two    == Const_(Number(2))
Key_   == Const_(Str("k"))
Break_(n)    == Jump("break", n)
Continue_(n) == Jump("continue", n)

-----------------------------------------------------------------------------

TheRoot == "msg"

TheChild == <<"msg", "list">> :> "list" @@ <<"list", "0">> :> "item"
            @@ <<"msg", "map">> :> "map" @@ <<"msg", "sub">> :> "sub"

TheValueAt ==
    "msg" :> Msg({}) @@ "sub" :> Msg({<<"f", Number(3)>>}) @@ "item" :> Number(5)
    @@ "list" :> List(<<Number(5), Number(6)>>)
    @@ "map" :> Map({<<Str("k"), Number(1)>>, <<Str("l"), Number(2)>>})

TheDefaultAt ==
    "msg" :> Msg({}) @@ "sub" :> Msg({}) @@ "item" :> Null
    @@ "list" :> List(<<>>) @@ "map" :> Map({})

\* The values of these programs and this message.
TheData ==
    {Nil, Null, Error, Bool(TRUE), Bool(FALSE), Map({}), TheValueAt["map"]}
        \cup {Number(n) : n \in 0..7} \cup {Str(s) : s \in {"a", "b", "k", "l"}}
        \cup {List(elems) : elems \in {<<>>, <<Number(5)>>, <<Number(5), Number(6)>>}}
        \cup {Msg({}), Msg({<<"f", Number(3)>>})}

TheFieldType == "f" :> "int" @@ "g" :> "int" @@ "h" :> "bool"

TheOneof == "f" :> "" @@ "g" :> "choice" @@ "h" :> "choice"
=============================================================================
