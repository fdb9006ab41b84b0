--------------------------- MODULE EvalProperties ---------------------------
(***************************************************************************)
(* What evaluations promise, stated of the machine of Eval.                *)
(***************************************************************************)
EXTENDS Eval

CONSTANT ArgVals    \* values that can become arguments

\* Type invariant: frames run in allocated scopes, only the bottom frame is Eval,
\* only the top frame is entered, waits or takes a result, and all frames below
\* are at a point where an evaluation can call another one.
TypeOK ==
    /\ scopes \in Seq([arr : Nat, len : Nat, parent : Nat, loc : DOMAIN ValueAt])
    /\ \A s \in DOMAIN scopes : /\ scopes[s].arr <= Len(arrays)
                                /\ scopes[s].len <= Cap(scopes[s].arr)
                                /\ scopes[s].parent < s
    /\ cyclesLeft \in 0..EvalMax
    /\ out.st \in {"idle", "running", "ok", "err", "panic"}
    /\ out.st = "running" => frames # <<>>
    /\ out.st \in {"idle", "ok", "err"} => frames = <<>> /\ ret = NoRet
    /\ \A d \in DOMAIN frames :
          /\ frames[d].env \in DOMAIN scopes
          /\ frames[d].node \in 0..Len(prog.nodes)
          /\ frames[d].pc = "init" <=> d = 1
          /\ d < Len(frames) =>
                frames[d].pc \in {"init", "args", "body", "parent", "each", "loaded"}

\* Every activation of eval that is under way has spent a cycle of this Eval, so
\* that EvalMax bounds the nesting too: of procs that load each other, of loops
\* in loops.
DepthWithinCycles ==
    Cardinality({d \in 2..Len(frames) : frames[d].pc # "scope"}) + cyclesLeft <= EvalMax

\* An error that is no break or continue, ErrEvalTooLong above all, is never
\* turned into a value: not by a loop around it, not by a range that cleans up
\* after it, not by the evaluation that loaded a proc.
ErrorsAreFatal ==
    [][ret.err.k \in {"fail", "toolong"} =>
          ret'.err.k \in {"fail", "toolong"} \/ out'.st = "err"]_vars

\* Field break of value.proto: break(n) breaks out of n enclosing while values.  A
\* break under way still counts exactly the while bodies from here to the one it is
\* meant for (all of them and more, if there is none): while values whose condition
\* it comes from do not count.
BreakCounts ==
    ret.err.k = "break" =>
        IF aim = 0 THEN ret.err.n > Cardinality(WhileBodies)
                   ELSE ret.err.n = Cardinality({d \in WhileBodies : d >= aim})

\* A while that goes on with its next round because of a continue is the one the
\* continue was meant for, however the count on the way wraps around.
ContinueReachesItsWhile ==
    [][ret.err.k = "continue" /\ Len(frames') > Len(frames) => Len(frames) = aim]_vars

\* Fields scope and args of value.proto: without drop_args, what is evaluated in
\* a subscope leaves the arguments of the evaluations around it alone.
DropFree == \A k \in DOMAIN prog.nodes : prog.nodes[k].drop = 0

InSubscope(d) ==
    \E e \in (d + 1)..Len(frames) :
        /\ frames[e].pc # "scope"
        /\ prog.nodes[frames[e].node].scope # <<>>

SubscopeKeepsArgs ==
    [][DropFree => \A d \in DOMAIN frames :
          InSubscope(d) => Visible(frames[d].env)' = Visible(frames[d].env)]_vars

\* celArgListIterator.Next indexes a slice that may have shrunk since HasNext was
\* prepared.  Only a drop_args of the program makes it do so: the two arguments that
\* a range pushes and drops itself never cost the list one of its own, not even when
\* the ranged value leaves arguments behind or ranges over the same list.
RangeKeepsItsArgs == At("next") /\ ArgGone(Top.iter) => ~DropFree

\* Range of value.proto: the two arguments are "removed after each evaluation".  The
\* drop takes the newest two, whatever they are: those that were added, if every value
\* with arguments has a scope of its own, also when the evaluation has failed, ranged
\* over the same list or gone through a copy of the scope.
Tidy == DropFree /\ \A k \in DOMAIN prog.nodes :
                       prog.nodes[k].args # <<>> => prog.nodes[k].scope # <<>>

RangeRemovesItsArgs ==
    At("each") /\ ret # NoRet /\ Tidy => Arg(Top.env, 0) = Top.acc

\* Field args of value.proto: args of a value are numbered from 0 in the order
\* written, the arguments there were before come after them.  (Stated for
\* arguments that are constants, whose values the program tells, and that neither
\* drop arguments nor leave their own behind.)
Literal(f) ==
    \A j \in DOMAIN prog.nodes[f.node].args :
        LET arg == prog.nodes[prog.nodes[f.node].args[j]]
        IN  arg.kind = "const" /\ arg.drop = 0 /\ arg.args = <<>>

ArgsInOrder ==
    (out.st = "running" /\ Top.pc = "body" /\ ret = NoRet /\ Top.i = 0) =>
        (Literal(Top) => \A j \in DOMAIN Node.args :
                            Arg(Top.env, j - 1) = prog.nodes[Node.args[j]].val)

\* Every Eval ends, whatever loops, procs and live arguments the program has:
\* with a value, an error or a panic.
EveryEvalEnds == (out.st = "running") ~> (out.st # "running")

\* Evaluations use scopes and arguments only in the ways of ScopeArgs: what holds
\* of the arguments there holds in every program.
Usage == INSTANCE ScopeArgs WITH
            Args      <- ArgVals,
            Locs      <- DOMAIN ValueAt,
            MaxSteps  <- 2,
            MaxScopes <- 1000, MaxArrays <- 1000, MaxOwn <- 1000, MaxFrames <- 1000,
            frames    <- [d \in DOMAIN frames |->
                            [scope |-> frames[d].env,
                             at    |-> IF frames[d].pc \in {"scope", "drop", "parent"}
                                       THEN frames[d].pc ELSE "body"]]

ImplementsScopeArgs == Usage!Spec
=============================================================================
