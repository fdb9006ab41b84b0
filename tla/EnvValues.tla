------------------------------ MODULE EnvValues ------------------------------
(***************************************************************************)
(* Environments as several goroutines use them: Set, Get and Clone from Go *)
(* (env.go), and store, set_index, load and range from evaluations (eval.go*)
(* and cel_env.go).  Every goroutine has one environment.  heap holds what *)
(* is used by reference:                                                   *)
(*                                                                         *)
(*    "table"   Env.values, which shallow copies of an Env share           *)
(*    "ints"    a Go map[string]int                                        *)
(*    "any"     a Go map[string]interface{}                                *)
(*    "fixed"   a list, or a map that a program wrote, which do not change *)
(*                                                                         *)
(* at maps keys to elements; those of a table are cells, a value and its   *)
(* origType.                                                               *)
(***************************************************************************)
EXTENDS Integers, Sequences, Functions, TLC

CONSTANTS
    Threads,        \* goroutines
    First,          \* the one that creates the first environment
    Keys,           \* keys of environments and maps
    Rangers,        \* those whose evaluations range over environments
    GoInts,         \* integers that Go sets: a type, "int" or "int64", and a number
    MaxInt32,       \* math.MaxInt32
    MaxCalls        \* bound on the calls that change something

ASSUME FirstAssumption == First \in Threads
ASSUME RangersAssumption == Rangers \subseteq Threads
ASSUME BoundAssumption == MaxCalls \in Nat
ASSUME Int32Assumption == MaxInt32 \in Nat
ASSUME GoIntsAssumption == GoInts \subseteq {"int", "int64"} \X Int

VARIABLES
    heap,           \* objects by address
    env,            \* per goroutine, the table of its environment, 0 if it has none
    iter,           \* per goroutine, its running range over an environment: the
                    \* table and the keys left, or NoIter
    calls,          \* how many calls have changed something
    dead,           \* the process has died: of a stack overflow or a race
    given,          \* history: per goroutine and key, what Go gave with Set, until
                    \* the key is bound anew or deleted
    shared          \* history: objects and tables that were values of an
                    \* environment when it was cloned, and all that could be reached
                    \* from them then or at any time since

vars == <<heap, env, iter, calls, dead, given, shared>>

Int_(n)  == [k |-> "int", n |-> n]
Null     == [k |-> "null"]
Type     == [k |-> "type"]          \* what the CEL function type yields
Name     == [k |-> "name"]          \* a string, the name of a type
Ref(a)   == [k |-> "ref", addr |-> a]
EnvOf(a) == [k |-> "env", addr |-> a]   \* celEnv

Cell(orig, val) == [orig |-> orig, val |-> val]
NoIter == [table |-> 0, todo |-> {}]

Bound(f, k, x) == [j \in DOMAIN f \cup {k} |-> IF j = k THEN x ELSE f[j]]

-----------------------------------------------------------------------------
(***************************************************************************)
(* The graph of values.                                                    *)
(***************************************************************************)

Tables == {a \in DOMAIN heap : heap[a].kind = "table"}

Element(a, k) == IF a \in Tables THEN heap[a].at[k].val ELSE heap[a].at[k]

Elements(a) == {Element(a, k) : k \in DOMAIN heap[a].at}

Targets(a, kinds) == {x.addr : x \in {x \in Elements(a) : x.k \in kinds}}

\* What can be reached from the addresses in from, by way of values of the given
\* kinds.
Reach(from, kinds) ==
    LET within[n \in 0..Len(heap)] ==
            IF n = 0 THEN from
            ELSE UNION {{a} \cup Targets(a, kinds) : a \in within[n - 1]}
    IN  within[Len(heap)]

Refs == {"ref", "env"}

Inside(a) == Targets(a, {"env"})

\* ConvertToNative of cel-go: takes Go's int for an int32 and refuses what is beyond,
\* knows no native form of a type, and has a map or list only as what it is.
Int32 == (-MaxInt32 - 1)..MaxInt32

Converts(x, orig) ==
    /\ x # Type
    /\ x.k = "int" /\ orig = "int" => x.n \in Int32
    /\ x.k = "ref" => orig = heap[x.addr].kind

\* asMapStringInterface on table a: endless when an environment that is met
\* contains itself, an error when one contains what does not convert.  Which comes
\* first depends on the random order of Go maps.
Endless(a) == \E b \in Reach({a}, {"env"}) : b \in Reach(Inside(b), {"env"})
Refuses(a) ==
    \E b \in Reach({a}, {"env"}) : \E k \in DOMAIN heap[b].at :
        ~Converts(heap[b].at[k].val, heap[b].at[k].orig)

Conversion(a) ==
    IF Endless(a) THEN {"overflow"} \cup {r \in {"error"} : Refuses(a)}
    ELSE IF Refuses(a) THEN {"error"} ELSE {"map"}

\* Value(): all other values have one, a type its name.
Outcomes(x) ==
    CASE x.k = "env" -> Conversion(x.addr) [] OTHER -> {"map"}

\* The values a program finds at a path: env, env.k, env.k.l.
At(t, path) ==
    IF path = <<>> THEN {EnvOf(env[t])}
    ELSE LET x == {heap[env[t]].at[k].val : k \in {path[1]} \cap DOMAIN heap[env[t]].at}
         IN  IF Len(path) = 1 THEN x
             ELSE UNION {{Element(y.addr, k) : k \in {path[2]} \cap DOMAIN heap[y.addr].at} :
                            y \in {y \in x : y.k \in {"ref", "env"}}}

Paths == {<<>>} \cup {<<k>> : k \in Keys} \cup {<<k, l>> : k, l \in Keys}

-----------------------------------------------------------------------------
(***************************************************************************)
(* Calls from Go, outside evaluations.                                     *)
(***************************************************************************)

Init ==
    /\ heap = <<[kind |-> "table", at |-> <<>>]>>
    /\ env = [t \in Threads |-> IF t = First THEN 1 ELSE 0]
    /\ iter = [t \in Threads |-> NoIter]
    /\ calls = 0
    /\ dead = FALSE
    /\ given = [t \in Threads |-> <<>>]
    /\ shared = {}

Up == ~dead

Idle(t) == Up /\ iter[t] = NoIter

Has(t) == env[t] # 0

\* A call that changes something.
Change == calls < MaxCalls /\ calls' = calls + 1

NewTable(t, at) ==
    /\ heap' = Append(heap, [kind |-> "table", at |-> at])
    /\ env' = [env EXCEPT ![t] = Len(heap) + 1]

NewEnv(t) ==
    /\ Idle(t) /\ ~Has(t) /\ Change
    /\ NewTable(t, <<>>)
    /\ UNCHANGED <<iter, dead, given, shared>>

\* A mistake: the table is not copied.
CloneTable(t, u) ==
    /\ Idle(t) /\ Idle(u) /\ t # u /\ Has(t) /\ Change
    /\ env' = [env EXCEPT ![u] = env[t]]
    /\ given' = [given EXCEPT ![u] = given[t]]
    /\ shared' = shared \cup Reach(Targets(env[t], Refs), Refs)
    /\ UNCHANGED <<heap, iter, dead>>

\* Goroutine t clones its environment for u.
Clone(t, u) ==
    /\ Idle(t) /\ Idle(u) /\ t # u /\ Has(t) /\ Change
    /\ NewTable(u, heap[env[t]].at)
    /\ given' = [given EXCEPT ![u] = given[t]]
    /\ shared' = shared \cup Reach(Targets(env[t], Refs), Refs)
    /\ UNCHANGED <<iter, dead>>

\* Value x, or a new object, becomes an element of a.
Spread(a, x) ==
    shared' = IF a \in shared /\ x.k \in Refs THEN shared \cup Reach({x.addr}, Refs) ELSE shared

SpreadNew(a) ==
    shared' = IF a \in shared THEN shared \cup {Len(heap) + 1} ELSE shared

Bind(t, k, cell) == [heap EXCEPT ![env[t]].at = Bound(@, k, cell)]

\* A mistake: the type recorded is that of the CEL value.
SetNumberAsCel(t, k, orig, n) ==
    /\ Idle(t) /\ Has(t) /\ Change
    /\ heap' = Bind(t, k, Cell("int64", Int_(n)))
    /\ given' = [given EXCEPT ![t] = Bound(@, k, Cell(orig, Int_(n)))]
    /\ UNCHANGED <<env, iter, dead, shared>>

\* Number n of an integer type of Go; CEL has one for all.  (Values that NativeToValue
\* cannot convert are refused and change nothing.)
SetNumber(t, k, orig, n) ==
    /\ Idle(t) /\ Has(t) /\ Change
    /\ heap' = Bind(t, k, Cell(orig, Int_(n)))
    /\ given' = [given EXCEPT ![t] = Bound(@, k, Cell(orig, Int_(n)))]
    /\ UNCHANGED <<env, iter, dead, shared>>

\* A new map or list, used in no other environment.
SetNew(t, k, kind) ==
    /\ Idle(t) /\ Has(t) /\ Change
    /\ LET cell == Cell(kind, Ref(Len(heap) + 1))
       IN  /\ heap' = Append(Bind(t, k, cell), [kind |-> kind, at |-> <<>>])
           /\ given' = [given EXCEPT ![t] = Bound(@, k, cell)]
    /\ SpreadNew(env[t])
    /\ UNCHANGED <<env, iter, dead>>

\* Set(key, nil).
Delete(t, k) ==
    /\ Idle(t) /\ Has(t) /\ Change
    /\ heap' = [heap EXCEPT ![env[t]].at = Restrict(@, DOMAIN @ \ {k})]
    /\ given' = [given EXCEPT ![t] = Restrict(@, DOMAIN @ \ {k})]
    /\ UNCHANGED <<env, iter, dead, shared>>

\* What Get can return for key k: a value of a Go type, a map for an environment, or
\* a panic.
Panic == Cell("panic", Null)

Got(a, k) ==
    LET cell == heap[a].at[k]
    IN  CASE cell.val.k = "env" -> {IF r = "map" THEN Cell("copy", Null) ELSE Panic :
                                       r \in Conversion(cell.val.addr) \ {"overflow"}}
          [] OTHER -> {IF Converts(cell.val, cell.orig) THEN cell ELSE Panic}

-----------------------------------------------------------------------------
(***************************************************************************)
(* Steps of evaluations.                                                   *)
(***************************************************************************)

\* The origType of a stored value: the Go type of its Value().
OrigType(x) ==
    CASE x.k = "int" -> "int64"
      [] x.k = "ref" -> heap[x.addr].kind
      [] x.k = "env" -> "any"
      [] x.k = "null" -> "null"
      [] OTHER -> "string"

\* A mistake: storing null deletes, as Set(key, nil) does.
StoreUnlessNull(t, k, x) ==
    /\ Up /\ Has(t) /\ Change
    /\ heap' = IF x = Null THEN [heap EXCEPT ![env[t]].at = Restrict(@, DOMAIN @ \ {k})]
               ELSE Bind(t, k, Cell(OrigType(x), x))
    /\ given' = [given EXCEPT ![t] = Restrict(@, DOMAIN @ \ {k})]
    /\ UNCHANGED <<env, iter, dead, shared>>

\* store, the function and the Value.
Store(t, k, x) ==
    /\ Up /\ Has(t)
    /\ \/ /\ "map" \in Outcomes(x) /\ Change
          /\ heap' = Bind(t, k, Cell(OrigType(x), x))
          /\ given' = [given EXCEPT ![t] = Restrict(@, DOMAIN @ \ {k})]
          /\ Spread(env[t], x)
          /\ UNCHANGED dead
       \/ "error" \in Outcomes(x) /\ UNCHANGED <<heap, calls, given, dead, shared>>
       \/ "overflow" \in Outcomes(x) /\ dead' = TRUE /\ UNCHANGED <<heap, calls, given, shared>>
    /\ UNCHANGED <<env, iter>>

\* store of a map or list that the program writes.
StoreNew(t, k) ==
    /\ Up /\ Has(t) /\ Change
    /\ heap' = Append(Bind(t, k, Cell("fixed", Ref(Len(heap) + 1))), [kind |-> "fixed", at |-> <<>>])
    /\ given' = [given EXCEPT ![t] = Restrict(@, DOMAIN @ \ {k})]
    /\ SpreadNew(env[t])
    /\ UNCHANGED <<env, iter, dead>>

\* reflect's conversion to int, of null too, or to interface{}.
Fits(kind, x) == kind = "any" \/ (kind = "ints" /\ x.k \in {"int", "null"})

AsElement(kind, x) ==
    CASE kind = "ints" /\ x = Null -> Int_(0)
      [] x = Type -> Name
      [] OTHER    -> x

\* set_index on object a that returns a; Look has what else it can do.
SetIndex(t, a, k, x) ==
    /\ Up /\ Has(t) /\ Fits(heap[a].kind, x) /\ Change
    /\ heap' = [heap EXCEPT ![a].at = Bound(@, k, AsElement(heap[a].kind, x))]
    /\ Spread(a, x)
    /\ UNCHANGED <<env, iter, dead, given>>

\* A value is converted for Go: by Get, load or has_index, as a result of Eval, or by
\* set_index, which changes a copy of an environment that is lost, panics at the
\* index of a list, and refuses all other values.  Of these outcomes only the
\* endless conversion has an effect; the panics of the CEL functions become errors.
Look(t, x) ==
    /\ Up /\ Has(t)
    /\ \/ "overflow" \in Outcomes(x) /\ dead' = TRUE
       \/ Outcomes(x) # {"overflow"} /\ UNCHANGED dead
    /\ UNCHANGED <<heap, env, iter, calls, given, shared>>

\* A range over an environment begins, with the keys there are.
Iterate(t, x) ==
    /\ Idle(t) /\ Has(t) /\ x.k = "env"
    /\ iter' = [iter EXCEPT ![t] = [table |-> x.addr, todo |-> DOMAIN heap[x.addr].at]]
    /\ UNCHANGED <<heap, env, dead, given, shared, calls>>

\* Next yields the value of a key, in any order; range panics on the value of a key
\* that is gone.
Next_(t) ==
    /\ Up
    /\ \E k \in iter[t].todo :
          iter' = [iter EXCEPT ![t] = IF k \in DOMAIN heap[@.table].at
                                      THEN [table |-> @.table, todo |-> @.todo \ {k}]
                                      ELSE NoIter]
    /\ UNCHANGED <<heap, env, dead, given, shared, calls>>

\* All keys have been seen, or the range ends early.
Stop(t) ==
    /\ Up /\ iter[t] # NoIter
    /\ iter' = [iter EXCEPT ![t] = NoIter]
    /\ UNCHANGED <<heap, env, dead, given, shared, calls>>

\* Operands of a program: literals, and what its paths lead to.
Found(t) == IF Has(t) THEN UNION {At(t, path) : path \in Paths} ELSE {}

Objects(t) == {x.addr : x \in {x \in Found(t) : x.k = "ref"}}

Operands(t) == {Null, Type} \cup Found(t)

\* What a call of goroutine t can write, and what it can read.
Writable(t) ==
    {env[t]} \cup {a \in Objects(t) : heap[a].kind \in {"ints", "any"}}

Readable(t) ==
    Objects(t) \cup Reach({x.addr : x \in {x \in Found(t) : x.k = "env"}}, {"env"})
        \cup ({iter[t].table} \ {0})

\* Calls of two goroutines at the same time: when one writes to a Go map that the other
\* uses, the Go runtime may end the process.
Clash(t, u) ==
    /\ Up /\ t # u /\ Has(t) /\ Has(u)
    /\ Writable(t) \cap (Readable(u) \cup Writable(u)) # {}
    /\ dead' = TRUE
    /\ UNCHANGED <<heap, env, iter, calls, given, shared>>

Over == dead /\ UNCHANGED vars

FromGo ==
    \/ \E t \in Threads : NewEnv(t)
    \/ \E t, u \in Threads : Clone(t, u)
    \/ \E t \in Threads : \E k \in Keys : \E g \in GoInts : SetNumber(t, k, g[1], g[2])
    \/ \E t \in Threads : \E k \in Keys : \E kind \in {"ints", "any", "fixed"} : SetNew(t, k, kind)
    \/ \E t \in Threads : \E k \in Keys : Delete(t, k)

InEval ==
    \/ \E t \in Threads : \E k \in Keys : \E x \in Operands(t) : Store(t, k, x)
    \/ \E t \in Threads : \E k \in Keys : StoreNew(t, k)
    \/ \E t \in Threads : \E a \in Objects(t) : \E k \in Keys :
          \E x \in {x \in Operands(t) : x.k # "env"} : SetIndex(t, a, k, x)
    \/ \E t \in Threads : \E x \in Found(t) : Look(t, x)
    \/ \E t \in Rangers : \E x \in Found(t) : Iterate(t, x)
    \/ \E t \in Threads : Next_(t)
    \/ \E t \in Threads : Stop(t)

Next ==
    \/ FromGo
    \/ InEval
    \/ \E t, u \in Threads : Clash(t, u)
    \/ Over

Spec == Init /\ [][Next]_vars

-----------------------------------------------------------------------------
(***************************************************************************)
(* Properties.                                                             *)
(***************************************************************************)

Kinds == {"table", "ints", "any", "fixed"}

ValueOK(x) == /\ x.k \in {"int", "null", "type", "name", "ref", "env"}
              /\ x.k = "int" => x.n \in {0} \cup {g[2] : g \in GoInts}
              /\ x.k = "ref" => x.addr \in DOMAIN heap \ Tables
              /\ x.k = "env" => x.addr \in Tables

\* Type invariant: what is referred to exists and is of the right kind, maps of
\* integers hold integers, only tables and Go's maps of anything hold references, and
\* every goroutine has a table of its own.
TypeOK ==
    /\ \A a \in DOMAIN heap :
          /\ heap[a].kind \in Kinds
          /\ DOMAIN heap[a].at \subseteq Keys
          /\ \A x \in Elements(a) : ValueOK(x)
          /\ heap[a].kind = "ints" => \A x \in Elements(a) : x.k = "int"
          /\ heap[a].kind = "fixed" => heap[a].at = <<>>
    /\ \A t \in Threads :
          /\ env[t] # 0 => env[t] \in Tables
          /\ iter[t] = NoIter \/ iter[t].table \in Tables
    /\ \A t, u \in Threads : t # u /\ env[t] = env[u] => env[t] = 0
    /\ dead \in BOOLEAN
    /\ shared \subseteq DOMAIN heap

\* Set and Get of env.go: what Go put into an environment comes back from it with
\* the same type, number or identity, and so from its clones, until Go or a program
\* binds the key anew in that environment.  "This should not happen", says Get of its
\* panic: it happens for an int beyond int32, and for nothing else that Set took.
SetComesBack ==
    \A t \in Threads : \A k \in DOMAIN given[t] :
        LET x == given[t][k]
        IN  /\ k \in DOMAIN heap[env[t]].at
            /\ Got(env[t], k) = {IF x.orig = "int" /\ x.val.n \notin Int32 THEN Panic ELSE x}

\* Comments on Env and Clone: an environment is "not safe for concurrent use. Clone
\* your environment instead", and values "are copied shallowly": two goroutines
\* with an environment each race only at what was in an environment when it was
\* cloned, or could be reached from there then or since.
RacesAreShared ==
    \A t, u \in {t \in Threads : Has(t)} :
        t # u => Writable(t) \cap (Readable(u) \cup Writable(u)) \subseteq shared

\* A range over the environment of its own evaluation finds a value for every key
\* it began with, whatever it stores and whatever other goroutines do.
RangeFindsValues ==
    \A t \in Threads :
        iter[t] # NoIter /\ iter[t].table = env[t] => iter[t].todo \subseteq DOMAIN heap[env[t]].at

\* Whatever calls and evaluations do, every environment is a store of its own.
Stores == INSTANCE EnvStores WITH
             stores <- [t \in Threads |-> IF Has(t) THEN heap[env[t]].at ELSE <<>>]

ImplementsStores == Stores!Spec
=============================================================================
