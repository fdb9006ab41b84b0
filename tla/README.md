# protoeval in TLA+

protoeval evaluates protobuf messages by interpreting a tree of `Value` messages
(`protoeval/value.proto`). This directory models the interpreter: its scope tree
and argument stacks, its control flow and errors, its evaluation budget, the
messages it builds and the paths into them, its environments and the values they
share, and the process-wide cache of compiled CEL programs. TLC checks the models
on small instances; TLAPS proves the central invariants and three refinements for
every value of the constants.

## The system

| Part | State | Operations | Interacts with |
|---|---|---|---|
| Scope tree (`scope.go`) | nodes with parent, place in the message, and a Go slice `args` | `Init`, `Shift`, `ShiftToParent`, `PushArg`, `DropArgs`, `Arg`, `Value`, `DefaultValue` | nodes point to nodes inside `Env` copies; slices of copied nodes share arrays |
| Evaluator (`eval.go`) | recursion of `eval`, budget `cyclesLeft`, errors `errBreak`, `errContinue`, `ErrEvalTooLong` | `Eval`, one case of `eval` for each kind of value | pushes and drops arguments, stores in the environment, runs CEL programs |
| Environment (`env.go`) | `values`, `scope`, `cyclesLeft` | `NewEnv`, `Set`, `Get`, `SetEvalMax`, `Clone`, `shiftScope`, `shiftScopeToParent` | shallow copies per shifted evaluation share `values` |
| CEL views (`cel_args.go`, `cel_env.go`) | none of their own: pointers to a scope and an Env, iterators with a position | `Get`, `Size`, `Iterator`, `HasNext`, `Next`, conversions | read live state while `range` changes it |
| CEL program cache (`cel_ast.go`) | `asts` under a `sync.RWMutex` | `GetAST` | any number of goroutines; `initCel` |
| CEL globals (`cel.go`) | `celTypeRegistry`, `commonCelEnv`, `initCelOnce` | `initCel`, `scope2cel`, `value2any` | `NewEnv` and `GetAST` |
| Type conversions (`type.go`) | none | `getProtoType`, `getProtoMapKeyType`, `go2protofd` | list, map and message values |
| Value messages (`value.pb.go`, `value.proto`) | the program tree | generated accessors | input of `Eval` |

What is hard here:

* *Aliasing.* `ShiftToParent` copies a scope structure, slice header included.
  From then on two scopes append to one array.
* *Live views.* A CEL program can return its argument list; a `range` over it
  iterates over slices that the range itself, and the values it evaluates, change.
* *Control flow in errors.* `break` and `continue` are errors that every kind of
  value passes on, wrapped or bare, and that `while` counts down.
* *No value.* A nil `ref.Val` (empty `seq`, `while` that never ran, error returns)
  meets code that calls methods on it.
* *The budget* is the only thing that ends loops and procs that load themselves.
* *State between Evals.* `Env.scope` and `Env.values` outlive a call, failed or not.
* *Concurrency.* Environments are for one goroutine each; the AST cache and
  `initCel` are shared by all of them, and so is, unintentionally, every map that
  was in an environment when it was cloned.
* *Cycles.* A program can store its environment in itself.
* *Types.* Values pass through Go types by reflection, which narrows, rounds,
  wraps and saturates without an error, on the way into lists, maps and fields
  and on the way along paths.

What makes each part correct: every scope has an argument stack of its own, of
which drops take the newest and numbers count from the newest; every `Eval` ends,
with no more nested evaluations than its budget; errors are never swallowed;
breaks and continues reach the loop they are meant for; operators that
short-circuit compute the documented value; messages have the declared types and
paths select what they name; every environment is a store of its own in which what
Go sets is found again; and all goroutines get one syntax tree per program without
races or deadlocks.

`PROJECT.json` lists the components, the hazards at their lines, and the source
lines of every definition.

## Modules

```
Scope  <-- ScopeArgs <-- ArgList <-- MCScopeArgs   ArgStacks  (refined by ScopeArgs)
  ^            :          ^----- ScopeArgsProofs --> ScopeProofs
  |^--- ScopeProofs <-----------------------------------.
  |            :  (ScopeArgs is refined by Eval)        |
Eval <-- EvalProperties <-- EvalPure <-- MCEval         |
  |            ^-- EvalProofs <-- EvalScopeProofs <-- EvalValueProofs
Values         ^-- EvalDocs <-- MCDocs

EvalPrograms <-- LoopPrograms, PurePrograms        (programs of the MC modules)

Proto <-- Messages <-- MCMessages

EnvValues <-- MCEnvValues                          EnvStores  (refined by EnvValues)
    ^-------- EnvValuesProofs

CelAstMap <-- MCCelAstMap                          AstCache   (refined by CelAstMap)
    ^-------- CelAstMapProofs

Induction <-- ScopeProofs, EnvValuesProofs, EvalProofs
```

**Scope** is memory: `scopes` are nodes by address (`parent` 0 is nil), `arrays`
the backing arrays of their `args` slices. A slice is a window of length `len` on
array `arr`, so that `append` either writes into spare capacity, which others
may share, or moves to a new array of twice the size. `dropArgs`, `arg` and
`length` recurse to the root in the code; here `Path(s)` is that walk, `Held(s)`
the number of arguments passed on the way, and `DropArgs` and `Arg` are stated at
the node where the recursion ends. `Shift` allocates a node per step of the path
and `Env` copies point at the last of them. (The last node is copied into the
`Env` copy in the code; the original is garbage, and the model keeps one node.)

**ScopeArgs** is every order in which evaluations can use that memory, without
the values computed: a frame per activation of `Eval` or `eval`, and for each
stage of `eval` (scope, drop_args, args and sub-values, parent) the operations of
Scope the code performs there. `Return` is possible at any time, because every
call in `eval` can fail, and a failing shift or drop changes no scope.

**ArgStacks** is what value.proto promises instead: a stack per scope, without
windows and arrays, and drops that take the newest arguments visible: a stack is cut
only when those between it and the current scope are empty. `ScopeArgs` without parent
values (`SpecLocal`) refines it under the mapping `stacks <- [s |-> OwnArgs(s)]` and
`parent <- [s |-> scopes[s].parent]`. How many a drop takes is a parameter of the
concrete action that a step of the abstract one does not show; `DropIsExact` and
`RangeRemovesItsArgs` check the numbers.

**ArgList** is that list as CEL programs see it (`cel_args.go`): the iterator with
its scope and position, `Size`, `Contains` and `Equal`, each a walk of its own.

**Values** are the `ref.Val`s and errors the evaluator tells apart. **Eval** is
`Eval` and `eval` as a stack machine: `prog` is the tree of Values as a sequence
of nodes; `frames[d]` is an activation with its node, its `Env` copy's scope
(`env`), the point reached (`pc`), the child running (`i`) and the local that the
code accumulates (`acc`: list, map, message, `lastValue`, `result`); `ret` is
what the callee returned, value *and* error, since callers look at both. One
action stands for one stretch of code between two calls of `eval`. Each kind of
value is an action or two; results that most kinds treat alike (`PassError`,
`PassErrorValue`, `NotBool`) are written once. A Go panic is a step of its own,
at the places that `Panics` lists. CEL programs are modelled by their effects:
they yield a value, the live argument list, an argument or the environment, they
store, or they fail (`Operand`, `Stores`). The argument list and the environment
are live values, and stay so as results, arguments and in the environment. What goes into a literal, and what Eval returns, is what `Value()` makes of a value: a list of
the arguments there are then, a map of the environment (`Item`, `Native`). An environment
stored in itself has no such map: the Go stack overflows (`Valueless`), which is one of
the cases of `Panics`. A key of a map literal that is a message counts as taken if it is
the same message; for messages that are equal the model allows both, as Go compares
pointers. `load` evaluates what it finds if that is a Value message, a proc or one given
to Eval or as a constant.

**EvalProperties** states what evaluations promise; **EvalPure** the recursive
meaning of `not`, `all_of`, `any_of`, `seq`, `switch` and `list`, without a
machine; **EvalDocs** the sentences of the documentation that the code does not
live up to. `aim` in Eval is a history variable: the loop that the break or
continue under way is meant for by the documentation.

**Proto** are Go values with their types, and the conversions between them: those
of the Go language and of `reflect` (external), then `getProtoType`,
`getProtoMapKeyType`, list and map literals, and `go2protofd`. Integers have the
widths `W8`, `W32`, `W64`, and a float is a number of halves rounded to `P32` or
`P64` bits, so that the boundaries of the real types lie where small numbers are.
A string is a word, a numeral or made of code points (`string(n)`, and what reflect makes
of a list of int32), as far as parsing it tells them apart. **Messages** builds a message with one field (`Assign`, with what
`eval` makes of a literal) and follows paths into it (`Shift`, with `shiftStep`):
`chain` is the current scope and those above it, each a field descriptor and a
value. `saturates` is the machine: Go leaves conversions of floats out of range to
the platform. `DefaultValue` and `CelScope` are what is read from a scope.

**EnvValues** are several goroutines with an environment each. `heap` holds what Go
shares by reference: the tables of environments, and maps stored in them. Go
calls (`NewEnv`, `Clone`, `SetNumber`, `SetNew`, `Delete`) alternate with what
evaluations do: `Store`, `SetIndex` (the CEL function, with reflect's conversion to
the element type), `Look` for everything that converts a value for Go (`Get`, load,
`has_index`, results), and ranges over an environment step by step. `Clash` is the
Go runtime ending the process for a race on a map, `dead` also stands for the
stack overflow of converting an environment that contains itself. A goroutine has
one range at a time; Go sets integers of two types (`GoInts`) and new maps and
lists. CEL has one type of integers, so the table keeps the type that Go gave, and
`Converts` is cel-go's way back to it: it takes Go's `int` for an int32 and refuses what
is beyond, refuses a CEL type, and has a map or list only as what it is. `set_index` never
gets an environment for an element. `set_index` on a list always fails, for the
bounds check panics (eval.go:630) and cel-go turns the panic into an error, and on
an environment it changes a copy that is lost: both are `Look`. `shared` is a history
variable: everything that was a value of an environment when it was cloned, and all
that could be reached from there then or at any time since. (What can be reached from
there *now* would not do: a goroutine can take a list out of a shared map, keep it,
and another one can then replace it in the map.) **EnvStores** is a
store per environment, without tables and references.

**CelAstMap** is `GetAST` one step per line, for any number of goroutines, with
Go's rule that a waiting writer keeps new readers out, and with `initCel` behind
`sync.Once`. `initCel` can panic when the registry or the CEL environment cannot be made;
`sync.Once` counts that as done, and callers that come later find no CEL environment and panic
in `Compile`. **AstCache** is what callers may expect of a cache.

Operators introduced by `\* A mistake` are the bugs that the properties are
checked against (`mutants` in `PROJECT.json`); no specification uses them.

## Runs

| Run | Shows |
|---|---|
| ScopeArgsLocal | without parent values: no two scopes share an array, pushes are local, the slices implement private stacks |
| ScopeArgsParent | with parent values: memory is well-formed, drops are exact, and the numbered, listed, iterated and counted arguments agree |
| EvalKinds | 111 programs that take every branch of `eval`, all nestings of two loops around a break or continue, all two-level trees of pure values: budget, termination, fatal errors, argument order and scoping, counts of breaks and continues, documented values and costs (what is ignored is not evaluated), refinement of ScopeArgs |
| Messages | fields of every kind given values and literals of every kind, paths into them: declared types, exact selection, defaults, keys for CEL |
| EnvValues | two goroutines: what Go sets comes back with its type (or panics, exactly for the ints beyond int32), ranges find their values, races only at what clones share, refinement of EnvStores |
| CelAstMap | three goroutines: no race, one tree per code, right trees, nothing compiled or given without a CEL environment, even when `initCel` panics; every call returns; refinement of AstCache |

The runs that find a violation are listed under "Where code and documentation
differ".

### Bounds

* ScopeArgs: two arguments (one overwrites the other visibly), one place (values
  of scopes are irrelevant to arguments), paths of up to two steps, three nested
  frames and up to three or four scopes. That is enough for a grandparent, two
  copies of a parent, and a drop that crosses two scopes and ends in a third.
  Arrays of up to two arguments meet all cases of append: nil, full, spare
  capacity. `MaxInt32 = 3` stands for the limit on argument numbers, with one
  number above it.
* Eval: `EvalMax = 14` evaluations (12 in the Doc runs); endless loops run into it,
  all other programs end before. The 111 programs are evaluated twice, which shows
  what one Eval leaves to the next; the enumerated families once. `MaxUint32 = 15`
  (7 in the Doc runs) keeps the wrap-around of the continue count far above the counts
  in the programs, and above `EvalMax`, as `ContinuesReach` needs it.
  The programs in MCEval were chosen until every disjunct of every action and every
  case of `Panics` was taken; LoopPrograms and PurePrograms enumerate whole families.
* Messages: integers of 4 and 7 bits, floats of 3 and 5 bits of precision: as in Go,
  an int32 is exact in a float64 and not in a float32, and neither int64 nor uint64
  is exact in a float64. `Proto` states the order of widths as an assumption. Code points
  are 0 to `MaxRune = 5`. One field per message, since fields do not interact; two
  entries per map, so that keys can collide; `MaxDepth = 4` scopes, for a path through a message in a list or
  map and one more empty path. Steps are at and beyond the limits of all types.
* EnvValues: two goroutines, two keys (a map needs a key, its environment another),
  the ints 1 and 2 and the int64 2 with `MaxInt32 = 1`, so that one int is beyond it and
  the same number as int64 is not, `MaxCalls = 4` changes: enough to store an environment in itself, or in
  another one that is stored in it, and to clone, set and store after that. Keys are
  symmetric. One of the two goroutines ranges, the other one interferes.
* CelAstMap: one code that compiles and one that does not, since codes never
  interact except through the lock; three goroutines, so that two race to insert
  while the third reads. `compiled` numbers the trees made; it is finite because
  a goroutine only compiles when the map has no entry.

No bound is part of a theorem except as a constant in Nat.

### Fairness

`EveryEvalEnds` assumes weak fairness of the evaluator's own steps: `eval` runs in
the goroutine of its caller, takes no locks except in `GetAST`, and waits for
nobody; the scheduler runs it eventually. New Evals (`Begin`) are not assumed.
`EveryCallReturns` assumes weak fairness for each goroutine inside `GetAST`. That
suffices. A reader waits while a writer has announced itself or writes; later
writers can make it wait again, but `Lock` is reached only by callers that found
no tree under the read lock and compiled one, and nobody does so once the tree
is in the map. So there are finitely many writers, and each waits for a finite
number of others. New calls (`Call`) are not assumed to be made.

## Proofs

All proofs are checked by TLAPS without further assumptions than the named ASSUMEs on
constants: `MaxInt32`, `MaxUint32`, the bounds and step counts are natural numbers, the
former below the latter, `EvalMax` is an integer, the root is a place, `ZeroArg` is no
argument, `First` and `Rangers` are goroutines, `NoCaller` is no goroutine, `NoAst` no
tree and the faulty codes are codes; the integers that Go sets are pairs of a type, `int`
or `int64`, and a number (`GoIntsAssumption`); the counts of breaks and continues and the numbers
of arguments in programs are of type uint32 (`JumpsAssumption`), their paths are
sequences of steps (`PathsAssumption`), their arguments and children are nodes of the
program or absent and `drop_args` is a uint32 (`NodesAssumption`), of children they have
at least those that their kind names (`KidsAssumption`), the constants of programs and
the values of fields are of the set `Data`, whose members have their parts in it, or Value
messages, which are nodes of the program (`DataAssumption`), and steps lead from places of the message to places, of which its
root is one (`PlacesAssumption`). Three theorems about Eval have a hypothesis more,
which is given where they are described: `ContinuesReach`, `RangesClean` and
`TypeCorrect`.

*Induction.* The induction theorems of the library take an operator as a parameter,
which the provers here cannot instantiate. Two facts in their place take values
instead: `UpTo` says that a set of numbers has all of `0..n` if it has 0 and, with each
k below n, k + 1; it follows from the least element of the set of those missing.
`Recursion` says that a recursive function on `0..n` exists and obeys its
equation. Every induction below defines the set of the numbers for which the claim
holds, and cites `UpTo`.

*ScopeProofs.* `Path`, `Held` and `View` are recursive functions: the walk from a scope to
the root, the arguments passed on the way, and the list collected. For every tree in
which parents were allocated earlier (`Tree`, a part of `TypeOK`), `WalkDescends` and
`WalkEnds` show that the walk visits no scope twice and ends; `VisibleFacts`,
`PlaceFacts` and `PlaceExists`, that the node at which the recursion of `arg`
stops for number n is the node that contributed element n of the list, and that
there is one exactly when the list is that long. `DropByNode`, `DropHeld` and `DropIsCut` do
the same for `dropArgs`: resetting the scopes passed and cutting the one in which it
ends removes the first n elements of the list. `SameVisible` says when a list stays the
same although the memory changes: when every scope of a set with the walk in it does.
`WellFormed` is what all users of the memory rely on, for any set of values in the
slots, with a lemma for each operation that it is kept, and what the operation writes.

*ScopeArgsProofs.* `TypeOK` (well-formed memory and frames in it) is inductive:
each operation of Scope has a lemma that it keeps `MemoryOK` (`PushKeepsMemory`,
`DropKeepsMemory`, `ShiftKeepsMemory`, `ParentKeepsMemory`, `InitRootKeepsMemory`),
and `TypeStep` goes through the actions. Under `TypeOK`, `Unshared` is inductive
for the specification without parent values: a push moves to a new array or stays
in the one nobody else has (`PushIsAppend`, which also shows that a push appends
to its scope's stack and changes no other), new scopes begin with the nil array,
and drops only shorten windows or reset them. From that follow `PushIsLocal` and
the refinement of `ArgStacks` (`StackStep`), where a drop is a step to prefixes
(`DropCuts`) that takes the newest first (`DropsNewest`; `WalkIsPath` says that the
abstract walk to the root is that of the memory), and a shift adds empty stacks
(`ShiftAddsEmpty`) with parents in a chain (`ShiftAddsParents`).

With parent values `Unshared` is false, and run ScopeArgsShared shows that
`PushIsLocal` is false too. What remains true with shared arrays is `ArgIsIndexOfVisible`
and `DropIsExact`, from the facts of ScopeProofs; the former needs that no window
reaches into the part of an array that was never assigned (`Filled`).

`IsAt(it, s, n)` relates the position of an iterator to the list: what it
has still to yield are the elements from n on. It holds of a new iterator with n = 0 and
each `Next` adds 1 to n, also across empty scopes; `IterationIsList` follows by
induction on the length of the list. `EqualIsSameList` compares two walks of different
trees, element by element.

*CelAstMapProofs.* The invariants are not inductive by themselves. `IInv` adds
three facts: `LockInv` ties the points in the code to the lock (readers are
exactly those at `lookup` or `runlock`, the writer is the only one from `drain`
to `unlock`, and from `recheck` on there are no readers), `OnceInv` ties them and the CEL
environment to `sync.Once`, and `TreeInv` relates what callers hold in `ast` and `newast`, what
is in the map and what was given: everything given is in the map, and an `insert`
is preceded by a `recheck` that found nothing and that nobody can have
invalidated. Each part is kept by every step assuming the others, and every
property and the refinement of AstCache (`CacheStep`) follow.

*EvalProofs.* For every program, message and budget. Neither property is inductive,
since what a step does to errors and depth depends on where frames are. `Inv` says
that the bottom frame, and no other, is `Eval`'s; that every frame below the top
`Waits`, at a point where the code can be inside a call of `eval`; that a result is
there only where one is taken; and that active frames and cycles left do not
exceed `EvalMax`. Going through some sixty disjuncts for each conjunct would be
unreadable; instead each disjunct is shown to make one of four `Moves` (go on in
the top frame, call, return, look at the result), or to be one of `Enter`,
`Refuse`, `Begin`, `End` and `Panic`, and `Inv` and `ErrorsAreFatal` are proved of those.

The second half is about breaks and continues. `BreakCounts` is not inductive:
a count of 1 must belong to the innermost loop, so `BreakOK` says in addition that
the while meant is among the loops (`Meant`). `EnclosingOK` shows it when the signal
is issued: for every n up to the number of loops there is an n-th one from the top
(`Ranked`), which is found where a number that grows by at most one reaches n.
`CountDown` keeps it when a while body is left. Everything else is in `Hop`: a step
other than `Signal` either has no signal before and after it, or passes one on
unchanged from a frame that is no loop, or counts it in one that is, or takes it there
with count 1. Frames past their entry are of nodes of the program (`NodesOK`), so that
the counts issued are those of values, from 1 to `MaxUint32`.

`ContinueReachesItsWhile` needs more, since a continue of a null value is not taken by
the while it is meant for but passes it with count 0, which wraps around. `Trails`
has the count without the wrap, m: m is meant for its while, or it is at most 0 and that
while is left behind. Since m falls only where a loop is left, its distance from the
number of loops stays what it was in the beginning, where there were at most `EvalMax`
loops (`FewLoops`, from the cycles). To come down to 1 again after the wrap m would have
to be -`MaxUint32`, which is further than that. Hence the hypothesis of
`ContinuesReach`: `EvalMax <= MaxUint32`. `SetEvalMax` takes any int, but 2^32 nested
evaluations are beyond any stack.

*EvalScopeProofs.* What evaluations do to each other's arguments. In programs without
`drop_args`, but with `parent` values, so that copies of scopes share arrays and
ScopeArgsShared shows how a push in one overwrites an argument in the other. Why does
no evaluation notice? `Nest` is the answer, a statement about numbers of evaluations and
scopes without the machine: there are a number `base[d]` of arguments for every frame d
that neither it nor those it calls ever touch, and a set `up[d]` of scopes that its walks
to the root stay in. Of two scopes in such sets that share an array, the newer one is in
the set of a later frame only, is at least as long, and whoever is in it keeps what the
older one has below its base (`Apart`). `Stacked` puts the frames that are in the same
scope one above the other. `base` and `up` are not in the machine; the invariant says that
they exist, and each step shows how to find the new ones from the old.

The steps of the machine are reduced to seven ways in which they can treat scopes
(`Evolves`): to work in the scope of the top frame, to wait for another evaluation, to
end, to move to a scope below (`Shifting`) or to a copy of the parent (`Copying`), to
begin, to do nothing. For each of the seven there is a lemma about `Nest` alone and one
that applies it to the frames. `SubscopeKeepsArgs` follows: a frame in a subscope is in a
scope newer than those of the frames below, so that what it touches is on none of their
walks, or shares an array with one of those beyond its end.

`RangeRemovesItsArgs` needs to know that nothing else is left on top of the two
arguments that a range pushes. `Snug` says that the arguments of a scope are exactly
the base of its last frame and what that owes: an evaluation leaves no arguments behind if
it pushes its own in a subscope. The theorem has the hypothesis `MaxInt32 >= 2` (it is
2^31 - 1): otherwise a drop of two arguments would fail.

In programs with `drop_args` an evaluation can drop arguments of any scope on its
walk, so that little remains of `Nest`; but memory stays well-formed, which is proved of
every step of every program (`Sound`). `ArgsInOrder` is about many
steps: each argument is evaluated in frames of its own before it is pushed. `ArgsWait` says of a
frame that pushes constants, and has pushed those after the i-th, that these are on top of
its scope (`ArgsOn`), and that it is the last frame or the one before it, the last one
evaluating the i-th constant (`Serves`): since this has no arguments and drops none, it
can neither call nor change the scope in between. `ArgsDone` says that all of them are there
when the value itself begins. The steps by which that can go wrong are five (entering,
dropping, calling, pushing, the constant); at any other point no frame below pushes constants.

*EvalValueProofs.* What evaluations hold. A value is made of values to any depth, and
with `args` in them of scopes that come and go, so that no set of all values can be
written down beforehand. The invariant says that there is one: a set U with the data of
the program and the parts of its members (`Closed`, `PartsIn`), in which procs are nodes
of the program and live arguments are those of allocated scopes. Slots, environment,
results and frames hold members of U (`Valued`), iterators have still to yield members
(`IterOK`), and a frame that evaluates children has built so far what its kind builds (`BodyOK`).
`ValueInv`, which is `Sound` and that there is such a U, is inductive: a step that makes a
new value adds it to U, a literal also the snapshots that are in it (`NativeValued`). It shows that no list, iterator or proc outlives what it
refers to, and `TypeOK` follows. `TypeCorrect` assumes that `EvalMax` is no less than
0, as `TypeOK` has cycles left between 0 and it; `SetEvalMax` accepts less, with which
every evaluation fails at once.

`RangeKeepsItsArgs` is about a range over live arguments, which walks arrays that its own
body appends to and drops from. With the bases of `Nest`, the list that frame d ranges
over is safe (`ListKept`) if its next argument is in the list's scope, below `base[d]` if
that is the scope of the range itself, and if every frame above is in the scope of the
range or in one newer than the list. The last part is what makes it so when the list
came from a scope further down: whoever evaluates in between cannot get back to that
scope. `ListsTouched`, `ListsCalled`, `ListsLeft` and `ListsMoved` are this for the ways of
`Evolves`, about numbers alone; the machine adds that a frame at a range never moves
to another scope, and that the iterator stands at an argument that is there (`ListThere`).

*EnvValuesProofs.* `Inv` makes `TypeOK` inductive by fixing the shape of the heap, and
adds that what Go gave is what the table holds, with a type that is that of the number
or object (`IsGiven`), and that a range over one's own table has only keys left that are
bound. Each kind of change to the heap (a new object, a new binding
of a table, a new element of a map) has a lemma for all of `Inv`; the refinement of
EnvStores follows because a table belongs to one goroutine.

`RacesAreShared` needs an invariant of its own. `Reach`, all that can be reached by
references, is computed in rounds, as many as there are objects; `Saturates` shows that
these are enough, by counting: a round that is not the last one finds an object. `Divided`
then says that there are sets of objects (territories), one for each goroutine, that
contain its table and what it iterates over, that no reference leads out of, and that
have nothing in common but `shared`. There is one lemma for each kind of change that a
division survives it: a new object joins the territory of its goroutine, a new reference
stays inside one, and a clone gives the new goroutine what becomes shared. What a
goroutine reads or writes lies in its territory, so that races lie in `shared`.

Only model-checked: `ImplementsScopeArgs`, whose
abstract side has bounds that are those of a run;
Messages, whose numbers are exponentials of the widths, for which the solver has no
theory; all liveness, for which there is no prover here. `EvalPure` uses a RECURSIVE
operator and is for TLC alone.

## Where code and documentation differ

Each of these is a run that TLC finds violated; `findings` in `PROJECT.json`
quotes the sentences.

| Run | Difference |
|---|---|
| DocContinue | a bare `continue` ends the loop it should continue, with count 0, which wraps around in the next one |
| DocNoValue | a `while` that never ran and an empty `seq` yield no value, on which callers panic, instead of null |
| DocSeqResult | a `seq` interrupted by a break in a nested value loses its result |
| DocLoad | loading a proc yields the program, not its result |
| DocEvalArgs | a second Eval sees the arguments of the first |
| ScopeArgsShared | a push in a copy of the parent scope overwrites an argument held elsewhere |

More is visible in the models: the actions do what the code does, and properties
that speak of it name the exception. These differ from value.proto, too:

* `range` over the environment passes the value for the key (`cel_env.go:226`,
  `EnvPair`; `value.proto:352`);
* `range` drops the newest two arguments, which are not the two it added when the
  ranged value has arguments and no scope of its own (`eval.go:719`,
  `RangeRemovesItsArgs`; `value.proto:350`);
* a map literal without key kind takes null for a key and panics on a list
  (`eval.go:253`, `GoodKey`; `value.proto:284`);
* the default of a list or map panics in a scope made by an empty path, which is to
  be identical to its parent (`scope.go:295`, `DefaultFits`; `value.proto:42`);
* where conversions of floats saturate (arm64), the numbers 2^63 and 2^64 select the
  entry of the largest int64 or uint64 (`scope.go:199`, `Boundary`; `value.proto:49`).

And these contradict no sentence of it:

* the default of a list or map field inside an Any panics, too, and that of a
  scalar element of a list or map is null;
* numbers are narrowed, rounded or turned into characters without an error on the
  way into fields (`type.go:131`, `:170`); bytes pass for a repeated numeric field;
  keys that become equal replace each other in random order (`type.go:175`);
* a message of another type in a message field panics (`type.go:180`); the
  nonempty lists and maps of a heterogeneous literal fit no field;
* the comment at `type.go:89` announces (nil, nil) for INVALID, but the type of
  `interface{}` is returned, which its caller needs;
* the fields of a message are evaluated in random order (`eval.go:285`);
* an environment that contains itself ends the process with a stack overflow
  when it is converted: by `Get`, load, `has_index`, another store, or as a result;
* `Get` panics for an `int` beyond int32 that `Set` took, and for a CEL type that a
  program stored, although "this should not happen" (`env.go:78`; `SetComesBack` says
  that nothing else does).

## Not modelled

* What CEL programs compute: the language is cel-go's. The models have its effects
  (stores, elements set, values and the live argument list returned).
* In Eval: environments that Go filled before the evaluation (`Env.Set`; they are in
  EnvValues), and the evaluation by `load` of Value messages that a message literal built,
  that are values of the evaluated message or parts of constants. Value messages that Go
  gives to Eval, constants and procs are evaluated. Nor is the way back of CEL types
  and of Go's `int` in `Value()` of an environment, which is in EnvValues.
* Conversions of arguments and environments to other CEL types, `Equal` and
  `Contains` of the environment, type descriptors: they only read, and the reading
  parts are `Visible`, `At` and `Conversion`.
* How values are shown to CEL (`scope.Value`): cel-go adapts protobuf values itself.
* Surrogates among the code points, which become the replacement character like numbers
  beyond all code points.
* Floats with infinities and NaN, which no integer type or key takes.
* Messages with several fields, oneofs and field order are in Eval, without widths.
* Generated code, descriptors and the tests.

## Plan

Done: Scope and ArgList with the refinement of ArgStacks; Eval with all kinds of
values; Proto and Messages; EnvValues with the refinement of EnvStores; the cache;
the proofs above.

What is left, by what it would add:

1. Several goroutines that evaluate over one cache: the composition of CelAstMap and
   Eval at the action `Program`.
