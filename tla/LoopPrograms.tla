---------------------------- MODULE LoopPrograms ----------------------------
(***************************************************************************)
(* All programs of two nested while values in which the inner one, in the  *)
(* body or the condition of the outer one, contains a break or continue.   *)
(*                                                                         *)
(*    1 while: 2 or the inner while, 3 or the inner while                  *)
(*    2 condition of the outer while                                       *)
(*    3 body of the outer while: a sequence of 4 and the inner while, or a *)
(*      range that evaluates it for two elements                           *)
(*    5 inner while: condition 6, body 7                                   *)
(*    7 a value around 9, with 8 before it                                 *)
(*    9 the break or continue                                              *)
(***************************************************************************)
EXTENDS EvalPrograms

Jumps == {Break_(n) : n \in 1..3} \cup {Continue_(n) : n \in 1..3}

Loops ==
    {Once(<<Of("while", top), c1, body, v, Of("while", <<6, 7>>), c2, around, v, jump,
            Const_(List(<<Number(5), Number(6)>>)), True_, Key_>>) :
        top    \in {<<2, 3>>, <<5, 4>>},
        c1     \in {True_, Break_(1)},
        body   \in {Of("seq", <<4, 5>>), Of("range", <<10, 5>>)},
        v      \in {Null_, One},
        c2     \in {True_, False_, Continue_(1)},
        around \in {Of("seq", <<8, 9>>), Of("switch", <<11, 9, 0>>), Of("list", <<9>>),
                    Of("store", <<9, 12>>), With(<<9>>, Blank)},
        jump   \in Jumps}
=============================================================================
