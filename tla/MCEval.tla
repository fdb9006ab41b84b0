------------------------------- MODULE MCEval -------------------------------
(***************************************************************************)
(* A program for every kind of value, with what can go wrong in it; and    *)
(* all nested loops of LoopPrograms and pure values of PurePrograms.       *)
(***************************************************************************)
EXTENDS EvalPure, LoopPrograms, PurePrograms

Scoping == {
    Prog(<<In(<<"list", "0">>, Blank)>>),
    Prog(<<In(<<"list", "1">>, Blank)>>),
    Prog(<<In(<<>>, Of("parent", <<2>>)), In(<<"sub">>, Blank)>>),
    Prog(<<Of("parent", <<2>>), Blank>>),
    Prog(<<In(<<"list">>, Of("default", <<>>))>>),
    Prog(<<In(<<"list">>, Of("seq", <<2>>)), In(<<>>, Of("default", <<>>))>>),
    Prog(<<Of("default", <<>>)>>),
    \* arguments of subscopes, of parents, dropped and out of reach
    ProgA(<<With(<<2, 3>>, Of("list", <<4, 5, 6>>)), One, Two,
            With(<<7>>, In(<<"sub">>, ArgOf(1))), ArgOf(0), Dropping(2, ArgOf(0)), True_>>,
          <<Str("a"), Str("b")>>),
    ProgA(<<With(<<2>>, In(<<>>, Of("parent", <<3>>))), One,
            Dropping(1, With(<<4>>, ArgOf(0))), Two>>, <<Str("a")>>),
    Prog(<<With(<<2, 3>>, Of("list", <<4, 5>>)), One, Two,
           In(<<"sub">>, With(<<6>>, Of("seq", <<5, 7>>))), ArgOf(1),
           Null_, With(<<6, 6>>, ArgOf(2))>>),
    Prog(<<Dropping(1, One)>>),
    Prog(<<Of("list", <<2>>), Dropping(4, One)>>),
    Prog(<<With(<<2>>, One), Code("fail", 0, "")>>),
    ProgA(<<One>>, <<Error>>),
    ProgA(<<Of("list", <<2, 3>>), In(<<>>, Dropping(2, ArgOf(0))), ArgOf(0)>>,
          <<Number(1), Number(2), Number(3)>>) }

Building == {
    Prog(<<Of("list", <<2, 3, 4>>), One, True_, Null_>>),
    Prog(<<[Of("list", <<2, 3>>) EXCEPT !.typ = "int"], Null_, One>>),
    Prog(<<[Of("list", <<2, 3>>) EXCEPT !.typ = "int"], One, True_>>),
    Prog(<<[Of("list", <<2>>) EXCEPT !.typ = "bad"], One>>),
    Prog(<<Of("list", <<2>>), Of("seq", <<>>)>>),
    Prog(<<Of("list", <<2, 3>>), Const_(Error), One>>),
    Prog(<<Of("map", <<2, 3, 4, 5>>), One, True_, Two, Null_>>),
    Prog(<<Of("map", <<2, 3, 2, 3>>), One, True_>>),
    Prog(<<Of("map", <<2, 0>>), One>>),
    Prog(<<Of("map", <<2, 3>>), Of("list", <<3>>), One>>),
    Prog(<<[Of("map", <<2, 3>>) EXCEPT !.typ = "bool"], One, Two>>),
    Prog(<<[Of("map", <<2, 3>>) EXCEPT !.keyTyp = "bad"], One, Two>>),
    Prog(<<[Of("map", <<2, 3>>) EXCEPT !.keyTyp = "int"], Of("list", <<3>>), One>>),
    Prog(<<[Of("message", <<2, 3>>) EXCEPT !.names = <<"f", "h">>], Null_, True_>>),
    Prog(<<[Of("message", <<2, 3>>) EXCEPT !.names = <<"g", "h">>], One, True_>>),
    Prog(<<[Of("message", <<2, 3>>) EXCEPT !.names = <<"f", "x">>],
           Code("store", 0, "k"), True_>>),
    Prog(<<[Of("message", <<2>>) EXCEPT !.names = <<"f">>], True_>>),
    Prog(<<[Of("message", <<2>>) EXCEPT !.names = <<"f">>, !.typ = "bad"], True_>>),
    Prog(<<[Of("enum", <<>>) EXCEPT !.val = Number(2)]>>),
    Prog(<<Of("enum", <<>>)>>) }

Storing == {
    Prog(<<Of("seq", <<2, 3>>), Of("store", <<4, 5>>), Of("load", <<5>>), One, Key_>>),
    Prog(<<Of("load", <<2>>), One>>),
    Prog(<<Of("store", <<2, 0>>), One>>),
    Prog(<<Of("store", <<0, 2>>), Key_>>),
    Prog(<<Of("store", <<2, 3>>), Of("seq", <<>>), Key_>>),
    Prog(<<Of("store", <<2, 2>>), One>>),
    Prog(<<Of("store", <<2, 3>>), One, Of("seq", <<>>)>>),
    Prog(<<Of("store", <<2, 3>>), Const_(Error), Key_>>),
    Prog(<<Of("proc", <<2, 2>>), One>>),
    Prog(<<Of("proc", <<0, 2>>), Key_>>),
    \* a proc that loads itself, one that rebinds its own key, one that breaks out
    \* of the loop that loads it
    Prog(<<Of("seq", <<2, 3>>), Of("proc", <<3, 4>>), Of("load", <<4>>), Key_>>),
    Prog(<<Of("seq", <<2, 3, 3>>), Of("proc", <<5, 4>>), Of("load", <<4>>), Key_,
           Of("store", <<6, 4>>), One>>),
    Prog(<<Of("seq", <<2, 3>>), Of("proc", <<4, 5>>), Of("while", <<6, 7>>), Break_(1),
           Key_, True_, Of("load", <<5>>)>>),
    Prog(<<Of("seq", <<2, 3>>), Code("store", 0, "k"), Of("load", <<4>>), Key_>>),
    Prog(<<Code("fail", 0, "")>>),
    Prog(<<Code("val", 0, "")>>),
    Prog(<<With(<<2>>, Code("arg", 0, "")), One>>),
    Prog(<<Code("arg", 0, "")>>) }

Ranging == {
    Prog(<<In(<<"list">>, Of("range", <<0, 2>>)), Code("storeArg", 1, "k")>>),
    Prog(<<In(<<"map">>, Of("range", <<0, 2>>)), Code("storeArg", 0, "k")>>),
    Prog(<<In(<<"item">>, Of("range", <<0, 2>>)), Null_>>),
    Prog(<<In(<<"list", "0">>, Of("range", <<0, 2>>)), Null_>>),
    Prog(<<Of("range", <<2, 3>>), In(<<"list">>, Blank), ArgOf(0)>>),
    Prog(<<Of("range", <<2, 0>>), One>>),
    Prog(<<Of("range", <<2, 3>>), Const_(Error), One>>),
    Prog(<<Of("range", <<2, 3>>), Code("fail", 0, ""), One>>),
    Prog(<<Of("range", <<2, 3>>), Of("seq", <<>>), One>>),
    Prog(<<In(<<"list">>, Of("range", <<0, 2>>)), Code("fail", 0, "")>>),
    Prog(<<In(<<"map">>, Of("range", <<0, 2>>)), Of("range", <<0, 1>>)>>),
    Prog(<<In(<<"list">>, Of("range", <<0, 2>>)), Dropping(1, Null_)>>),
    Prog(<<In(<<"list">>, Of("range", <<0, 2>>)), Dropping(2, Null_)>>),
    Prog(<<In(<<"list">>, Of("range", <<0, 2>>)), With(<<3>>, Null_), One>>),
    \* a range in a copy of the scope ranged in, with arguments of its own
    Prog(<<Of("range", <<2, 3>>), Const_(List(<<Number(5), Number(6)>>)),
           In(<<"sub">>, With(<<4>>, Of("parent", <<5>>))), One,
           Of("range", <<6, 7>>), Const_(List(<<Number(5)>>)), In(<<>>, With(<<4>>, Null_))>>),
    \* live arguments: of the scope ranged in, of subscopes, dropped on the way
    ProgA(<<Of("range", <<2, 3>>), Code("args", 0, ""), Null_>>, <<One.val, Two.val>>),
    ProgA(<<Of("range", <<2, 3>>), Code("args", 0, ""), Dropping(3, Null_)>>,
          <<One.val, Two.val>>),
    ProgA(<<In(<<>>, With(<<4>>, Of("range", <<2, 3>>))),
            In(<<>>, Code("args", 0, "")), With(<<4>>, Null_), True_>>, <<One.val>>),
    Prog(<<Of("seq", <<2, 3, 4>>), Code("store", 0, "k"), Code("store", 0, "l"),
           Of("range", <<5, 6>>), Code("env", 0, ""), Code("storeArg", 0, "m")>>) }

\* What Value() of the arguments and the environment does where it is asked for: in
\* literals, keys, results and stores, of values that are Value messages, and when the
\* environment has been stored in itself, after which node 2 is evaluated.
Env_  == Code("env", 0, "")
Args_ == Code("args", 0, "")

InItself(nodes) ==
    Prog(<<Of("seq", <<3, 2>>), nodes[1], Of("store", <<4, 5>>), Env_, Key_>>
             \o Tail(nodes))

Snapshots == {
    ProgA(<<With(<<2>>, Of("list", <<3, 2>>)), One, Args_>>, <<Str("a")>>),
    ProgA(<<With(<<2>>, Args_), One>>, <<Str("a")>>),
    Prog(<<Of("seq", <<2, 3>>), With(<<4>>, Of("store", <<5, 6>>)),
           Of("map", <<6, 7>>), One, Args_, Key_, Env_>>),
    Prog(<<Of("seq", <<2, 3>>), Code("store", 0, "k"), Env_>>),
    Prog(<<Of("seq", <<2, 3>>), Code("store", 0, "k"), Of("map", <<4, 5>>), Key_, Env_>>),
    Prog(<<Of("map", <<2, 3>>), Args_, One>>),
    Prog(<<[Of("message", <<2>>) EXCEPT !.names = <<"f">>], Args_>>),
    Prog(<<Of("load", <<2>>), Env_>>),
    Prog(<<Of("map", <<2, 3, 2, 3>>), In(<<"sub">>, Blank), One>>),
    \* Value messages
    ProgA(<<Of("seq", <<2, 3>>), Of("store", <<4, 5>>), Of("load", <<5>>), ArgOf(0), Key_,
            Dropping(1, Null_)>>, <<Proc(6)>>),
    Prog(<<Of("seq", <<2, 3>>), Of("store", <<4, 5>>), Of("load", <<5>>),
           Const_(Proc(3)), Key_>>),
    \* arguments that are no values
    Prog(<<With(<<2>>, Code("arg", 0, "")), Const_(Error)>>),
    Prog(<<With(<<2>>, Code("storeArg", 0, "k")), Of("seq", <<>>)>>),
    \* the environment in itself
    InItself(<<Env_>>),
    InItself(<<Of("load", <<5>>)>>),
    InItself(<<Of("load", <<4>>)>>),
    InItself(<<Of("list", <<4>>)>>),
    InItself(<<Of("map", <<5, 4>>)>>),
    InItself(<<Of("store", <<4, 5>>)>>),
    InItself(<<Of("range", <<4, 6>>), Null_>>),
    InItself(<<With(<<4>>, Code("storeArg", 0, "l"))>>) }

\* Values of booleans, loops and switches: those that end, and faulty ones.
Controlling == {
    Prog(<<Of("not", <<2>>), False_>>),
    Prog(<<Of("not", <<2>>), One>>),
    Prog(<<Of("allOf", <<2, 3, 2>>), True_, Const_(Error)>>),
    Prog(<<Of("anyOf", <<2, 3, 2>>), False_, True_>>),
    Prog(<<Of("switch", <<2, 3, 4, 5, 0>>), False_, One, True_, Two>>),
    Prog(<<Of("switch", <<2, 3, 0>>), False_, One>>),
    Prog(<<Of("switch", <<2, 0, 3>>), True_, One>>),
    Prog(<<Of("switch", <<2, 3, 2>>), One, Break_(1)>>),
    Prog(<<Of("seq", <<2, 5, 8>>), Of("store", <<3, 4>>), True_, Key_,
           Of("while", <<6, 7>>), Of("load", <<4>>), Of("store", <<9, 4>>),
           Jump("break", 0), False_>>),
    Prog(<<Of("while", <<2, 0>>), True_>>),
    Prog(<<Of("while", <<2, 2>>), One>>),
    Prog(<<Of("while", <<2, 3>>), True_, Const_(Error)>>),
    Prog(<<Of("while", <<3, 2>>), True_, Const_(Error)>>),
    Prog(<<Of("while", <<2, 3>>), True_, Of("seq", <<4, 5>>), Of("proc", <<5, 6>>),
           Jump("continue", 0), Key_>>),
    Prog(<<Of("while", <<2, 3>>), True_, Of("while", <<2, 4>>), Break_(2)>>),
    Prog(<<Of("while", <<2, 3>>), True_, Of("while", <<2, 4>>), Continue_(1)>>),
    Prog(<<Of("while", <<2, 3>>), True_, Of("seq", <<4, 5>>), Const_(Error), Continue_(1)>>),
    Prog(<<Of("while", <<2, 3>>), True_, Of("seq", <<4, 5>>), One, Continue_(1)>>) }

MCPrograms ==
    Scoping \cup Building \cup Storing \cup Ranging \cup Snapshots \cup Controlling
        \cup Loops \cup Pure

MCArgVals ==
    {Error, Nil, Null, Bool(TRUE), EnvView, Proc(6)} \cup {Number(n) : n \in 0..7}
        \cup {Str(s) : s \in {"a", "b", "k", "l"}}
=============================================================================
