-------------------------------- MODULE MCDocs --------------------------------
(***************************************************************************)
(* Programs on which the code and the documentation differ.                *)
(***************************************************************************)
EXTENDS EvalDocs, EvalPrograms

Continued == {Prog(<<Of("while", <<2, 3>>), True_, Continue_(1)>>)}

\* A while that never evaluates its body, an empty sequence.
Nothing == {Prog(<<Of("while", <<2, 2>>), False_>>), Prog(<<Of("seq", <<>>)>>)}

\* A sequence that yields 1 and then breaks, directly or inside a switch.
Interrupted == {
    Prog(<<Of("while", <<2, 3>>), True_, Of("seq", <<4, 5>>), One, Break_(1)>>),
    Prog(<<Of("while", <<2, 3>>), True_, Of("seq", <<4, 5>>), One,
           Of("switch", <<2, 6, 0>>), Break_(1)>>) }

Procs == {Prog(<<Of("seq", <<2, 3>>), Of("proc", <<4, 5>>), Of("load", <<5>>), One, Key_>>)}

Repeated == {ProgA(<<ArgOf(0)>>, <<Number(1)>>)}

MCArgVals == {Error, Nil, Null, Str("k")} \cup {Number(n) : n \in 0..7}
=============================================================================
