------------------------------- MODULE EvalDocs -------------------------------
(***************************************************************************)
(* Sentences of value.proto, and of comments in the code, that evaluations *)
(* do not live up to.  None of them is a promise of EvalProperties; each   *)
(* is a property of its own, with the program that shows the difference    *)
(* in MCDocs.                                                              *)
(***************************************************************************)
EXTENDS EvalProperties

\* value.proto, continue: "continue continues the given nth enclosing while
\* evaluation": a continue that has such a while does not leave it.
ContinueStaysInside ==
    (ret.err.k = "continue" /\ aim # 0) => aim <= Len(frames)

\* value.proto, while: "If then is never evaluated, null is returned", and seq: "If
\* no elements are evaluated, seq yields null": evaluations that succeed yield some
\* value, null if there is no other.
NoValueIsNull ==
    GotOk => ret.val # Nil

\* value.proto, seq: "seq yields the value of last evaluated element in the list",
\* also when "occurrences of break or continue may cut the evaluation short".
SeqKeepsItsResult ==
    [][Body({"seq"}) /\ ret.err.k \in {"break", "continue"} => ret'.val = Top.acc]_vars

\* value.proto, proc: "Only when loaded, the value will be evaluated": loading yields
\* a value and no program.
LoadYieldsNoProc == out.val.t # "proc"

\* Comment on Eval: evaluation is "with the given arguments": they are all there are
\* when it starts.
EvalHasGivenArgs ==
    (At("init") /\ Start) => Visible(1) = prog.args
=============================================================================
