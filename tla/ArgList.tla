------------------------------- MODULE ArgList -------------------------------
(***************************************************************************)
(* celArgList (cel_args.go): the arguments of scope s as CEL programs and  *)
(* ranges see them.  Its methods walk the scope tree in three ways of their*)
(* own: arg and length recurse to the root, asRefValList concatenates, and *)
(* the iterator keeps a scope and a position.                              *)
(***************************************************************************)
EXTENDS ScopeArgs

Iterator(s) == [scope |-> s, pos |-> scopes[s].len, seen |-> <<>>]

\* A mistake: a scope without arguments ends the iteration.
StepShort(it) ==
    LET node == scopes[it.scope]
    IN  IF it.pos > 0
        THEN [it EXCEPT !.pos = @ - 1, !.seen = Append(@, arrays[node.arr][it.pos])]
        ELSE IF node.parent # 0 /\ node.len > 0
        THEN [it EXCEPT !.scope = node.parent, !.pos = scopes[node.parent].len]
        ELSE it

\* HasNext moves to the parent when a scope is exhausted, Next takes the newest
\* argument not seen yet.
IterStep(it) ==
    LET node == scopes[it.scope]
    IN  IF it.pos > 0
        THEN [it EXCEPT !.pos = @ - 1, !.seen = Append(@, arrays[node.arr][it.pos])]
        ELSE IF node.parent # 0
        THEN [it EXCEPT !.scope = node.parent, !.pos = scopes[node.parent].len]
        ELSE it

\* All that an iteration yields.
Iterated(s) ==
    LET it[n \in 0..(Len(scopes) * (MaxOwn + 1))] ==
            IF n = 0 THEN Iterator(s) ELSE IterStep(it[n - 1])
    IN  it[Len(scopes) * (MaxOwn + 1)].seen

Size(s) == Held(s)[Len(scopes)]

\* Contains: a walk of the iterator.
Holds(s, v) == Contains(Iterated(s), v)

\* A mistake: lengths are not compared.
EqualPrefix(s, t) == \A i \in 0..(Size(s) - 1) : HasArg(t, i) => Arg(s, i) = Arg(t, i)

Equal(s, t) ==
    /\ Size(s) = Size(t)
    /\ \A i \in 0..(Size(s) - 1) : Arg(s, i) = Arg(t, i)

-----------------------------------------------------------------------------

\* The views of one argument list agree, wherever its arguments lie: an iteration
\* (range, all, exists, Contains) yields the elements of asRefValList (conversions
\* of args for Go and CEL) in the same order, and Size counts them.
IterationIsList ==
    \A s \in DOMAIN scopes :
        /\ Iterated(s) = Visible(s)
        /\ Size(s) = Len(Visible(s))
        /\ \A v \in Args : Holds(s, v) <=> v \in {Visible(s)[i] : i \in DOMAIN Visible(s)}

\* Two argument lists are equal for CEL if and only if they list the same, although
\* their arguments may be spread over scopes differently.
EqualIsSameList ==
    \A s, t \in DOMAIN scopes : Equal(s, t) <=> Visible(s) = Visible(t)
=============================================================================
