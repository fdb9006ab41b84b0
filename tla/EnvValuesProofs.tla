--------------------------- MODULE EnvValuesProofs ---------------------------
(***************************************************************************)
(* What holds of environments for any number of goroutines, keys and calls.*)
(* Every property follows from two inductive invariants.  Inv: objects are *)
(* well-formed and nobody shares a table; what Go gave is what the table   *)
(* holds; a range over one's own table has only keys left that are bound.  *)
(*  Divided, for what is said of  *)
(* races: there are sets of objects, one for each goroutine, that have     *)
(* only what is shared in common and that no reference leads out of.       *)
(***************************************************************************)
EXTENDS EnvValues, Induction, FiniteSetTheorems, TLAPS

\* Values: numbers, null, names, types, and references to objects.
Values_ == [k : {"int"}, n : {0} \cup {g[2] : g \in GoInts}] \cup {Null, Type, Name}
              \cup [k : {"ref", "env"}, addr : Nat]

\* The Go types that a table remembers of its values.
Origs == {"int", "int64", "table", "ints", "any", "fixed", "null", "string"}

\* An entry of a table: its Go type and its value.
Cells == [orig : Origs, val : Values_]

\* Functions on some of the keys.
Bindings(V) == UNION {[D -> V] : D \in SUBSET Keys}

\* Objects: tables of entries, and maps and lists of values.
Objects_ == [kind : {"table"}, at : Bindings(Cells)]
               \cup [kind : {"ints", "any", "fixed"}, at : Bindings(Values_)]

\* References in an object lead to objects, and a map of integers has nothing else.
ObjectOK(o) ==
    /\ o.kind = "table" => \A k \in DOMAIN o.at : ValueOK(o.at[k].val)
    /\ o.kind # "table" => \A k \in DOMAIN o.at : ValueOK(o.at[k])
    /\ o.kind = "ints"  => \A k \in DOMAIN o.at : o.at[k].k = "int"
    /\ o.kind = "fixed" => o.at = <<>>

\* All objects are well-formed.
HeapOK == /\ heap \in Seq(Objects_)
          /\ \A a \in DOMAIN heap : ObjectOK(heap[a])

\* The types of what goroutines keep.
Types == /\ env \in [Threads -> Nat]
         /\ iter \in [Threads -> [table : Nat, todo : SUBSET Keys]]
         /\ given \in [Threads -> Bindings(Cells)]

\* Environments have tables, and no two the same one.
OwnTables ==
    /\ \A t \in Threads : env[t] # 0 => env[t] \in DOMAIN heap /\ heap[env[t]].kind = "table"
    /\ \A t, u \in Threads : t # u /\ env[t] = env[u] => env[t] = 0

\* Iterators and the last result lead to objects, too.
OtherRefs ==
    /\ \A t \in Threads : iter[t] = NoIter
          \/ (iter[t].table \in DOMAIN heap /\ heap[iter[t].table].kind = "table")
    /\ dead \in BOOLEAN

\* What Go gave: a number, or an object with its type.
IsGiven(c) == \/ c.val.k = "int"
              \/ /\ c.val.k = "ref" /\ c.val.addr \in DOMAIN heap
                 /\ heap[c.val.addr].kind = c.orig /\ c.orig \in Kinds

\* What Go set and nothing has bound since is in the table.
GivenIsBound ==
    \A t \in Threads : \A k \in DOMAIN given[t] :
        /\ env[t] # 0
        /\ k \in DOMAIN heap[env[t]].at
        /\ heap[env[t]].at[k] = given[t][k]
        /\ IsGiven(given[t][k])

\* The inductive invariant.
Inv == HeapOK /\ Types /\ OwnTables /\ OtherRefs /\ GivenIsBound /\ RangeFindsValues

-----------------------------------------------------------------------------
(***************************************************************************)
(* Bindings.                                                               *)
(***************************************************************************)

\* A set of bindings is a function on some of the keys.
LEMMA BindingsDef ==
    ASSUME NEW V, NEW f
    PROVE  f \in Bindings(V) <=> (f \in [DOMAIN f -> V] /\ DOMAIN f \subseteq Keys)
BY DEF Bindings

\* No bindings at all.
LEMMA EmptyBindings == ASSUME NEW V PROVE <<>> \in Bindings(V) /\ DOMAIN <<>> = {}
<1>1. DOMAIN <<>> = {}
  OBVIOUS
<1>2. <<>> \in [{} -> V]
  OBVIOUS
<1> QED BY <1>1, <1>2 DEF Bindings

\* Binding a key binds it and leaves the others alone.
LEMMA BoundType ==
    ASSUME NEW V, NEW f \in Bindings(V), NEW k \in Keys, NEW x \in V
    PROVE  /\ Bound(f, k, x) \in Bindings(V)
           /\ DOMAIN Bound(f, k, x) = DOMAIN f \cup {k}
           /\ Bound(f, k, x)[k] = x
           /\ \A j \in DOMAIN f : j # k => Bound(f, k, x)[j] = f[j]
<1> DEFINE g == Bound(f, k, x)
<1>1. f \in [DOMAIN f -> V] /\ DOMAIN f \subseteq Keys
  BY BindingsDef
<1>2. DOMAIN g = DOMAIN f \cup {k} /\ g \in [DOMAIN f \cup {k} -> V]
  BY <1>1 DEF Bound
<1>3. g[k] = x /\ \A j \in DOMAIN f : j # k => g[j] = f[j]
  BY DEF Bound
<1>4. g \in Bindings(V)
  BY <1>1, <1>2, BindingsDef
<1> QED BY <1>2, <1>3, <1>4

\* Deleting keys leaves the others alone.
LEMMA RestrictType ==
    ASSUME NEW V, NEW f \in Bindings(V), NEW S \in SUBSET DOMAIN f
    PROVE  /\ Restrict(f, S) \in Bindings(V)
           /\ DOMAIN Restrict(f, S) = S
           /\ \A j \in S : Restrict(f, S)[j] = f[j]
<1>1. f \in [DOMAIN f -> V] /\ DOMAIN f \subseteq Keys
  BY BindingsDef
<1>2. Restrict(f, S) \in [S -> V] /\ DOMAIN Restrict(f, S) = S
  BY <1>1 DEF Restrict
<1>3. \A j \in S : Restrict(f, S)[j] = f[j]
  BY DEF Restrict
<1> QED BY <1>1, <1>2, <1>3, BindingsDef

-----------------------------------------------------------------------------
(***************************************************************************)
(* The heap.                                                               *)
(***************************************************************************)

\* Replacing what an object binds changes nothing else of the heap.
LEMMA Rebound ==
    ASSUME NEW h \in Seq(Objects_), NEW a \in DOMAIN h, NEW f,
           h[a].kind = "table" => f \in Bindings(Cells),
           h[a].kind # "table" => f \in Bindings(Values_)
    PROVE  /\ [h EXCEPT ![a].at = f] \in Seq(Objects_)
           /\ DOMAIN [h EXCEPT ![a].at = f] = DOMAIN h
           /\ [h EXCEPT ![a].at = f][a].kind = h[a].kind
           /\ [h EXCEPT ![a].at = f][a].at = f
           /\ \A b \in DOMAIN h : b # a => [h EXCEPT ![a].at = f][b] = h[b]
<1> DEFINE o == [h[a] EXCEPT !.at = f]
<1>1. h[a] \in Objects_ /\ DOMAIN h = 1..Len(h)
  OBVIOUS
<1>2. o \in Objects_ /\ o.kind = h[a].kind /\ o.at = f
  BY <1>1 DEF Objects_
<1>3. [h EXCEPT ![a].at = f] = [h EXCEPT ![a] = o]
  OBVIOUS
<1> HIDE DEF o
<1>4. [h EXCEPT ![a] = o] \in Seq(Objects_)
  BY <1>2
<1> QED BY <1>1, <1>2, <1>3, <1>4

\* A new object gets a new address.
LEMMA Appended ==
    ASSUME NEW h \in Seq(Objects_), NEW o \in Objects_
    PROVE  /\ Append(h, o) \in Seq(Objects_)
           /\ DOMAIN Append(h, o) = DOMAIN h \cup {Len(h) + 1}
           /\ Append(h, o)[Len(h) + 1] = o
           /\ \A b \in DOMAIN h : Append(h, o)[b] = h[b]
           /\ Len(h) + 1 \notin DOMAIN h /\ Len(h) \in Nat
           /\ DOMAIN h \subseteq Nat \ {0}
OBVIOUS

\* Objects stay where they are and keep their kind.
Grown == /\ DOMAIN heap \subseteq DOMAIN heap'
         /\ \A a \in DOMAIN heap : heap'[a].kind = heap[a].kind

\* What refers to something still does when the heap grows.
LEMMA Kept ==
    ASSUME Grown
    PROVE  /\ \A x : ValueOK(x) => ValueOK(x)'
           /\ \A o : ObjectOK(o) => ObjectOK(o)'
           /\ \A c : IsGiven(c) => IsGiven(c)'
<1>1. \A x : ValueOK(x) => ValueOK(x)'
  BY DEF Grown, ValueOK, Tables
<1>2. \A o : ObjectOK(o) => ObjectOK(o)'
  BY <1>1 DEF ObjectOK
<1>3. \A c : IsGiven(c) => IsGiven(c)'
  BY DEF Grown, IsGiven
<1> QED BY <1>1, <1>2, <1>3

\* The heap is well-formed if all objects are unchanged or well-formed.
LEMMA HeapOKKept ==
    ASSUME HeapOK, Grown, heap' \in Seq(Objects_),
           \A a \in DOMAIN heap' :
              \/ a \in DOMAIN heap /\ heap'[a] = heap[a]
              \/ \E o : heap'[a] = o /\ ObjectOK(o)'
    PROVE  HeapOK'
<1>1. ASSUME NEW a \in DOMAIN heap' PROVE \E o : heap'[a] = o /\ ObjectOK(o)'
  <2>1. CASE a \in DOMAIN heap /\ heap'[a] = heap[a]
    <3>1. PICK o : o = heap[a]
      OBVIOUS
    <3>2. ObjectOK(o)
      BY <2>1, <3>1 DEF HeapOK
    <3> QED BY <2>1, <3>1, <3>2, Kept
  <2> QED BY <2>1
<1>2. \A a \in DOMAIN heap' : ObjectOK(heap[a])'
  BY <1>1 DEF ObjectOK, ValueOK, Tables
<1> QED BY <1>2 DEF HeapOK

\* A key of a well-formed object can be bound to a value that refers to what there
\* is.
LEMMA ObjectRebound ==
    ASSUME Grown, NEW o \in Objects_, ObjectOK(o), o.kind # "fixed",
           NEW k \in Keys, NEW x,
           o.kind = "table" => x \in Cells /\ ValueOK(x.val)',
           o.kind # "table" => x \in Values_ /\ ValueOK(x)',
           o.kind = "ints"  => x.k = "int",
           NEW p, p.kind = o.kind, p.at = Bound(o.at, k, x)
    PROVE  ObjectOK(p)'
<1>1. ObjectOK(o)'
  BY Kept
<1>2. /\ DOMAIN p.at = DOMAIN o.at \cup {k} /\ p.at[k] = x
      /\ \A j \in DOMAIN o.at : j # k => p.at[j] = o.at[j]
  BY DEF Bound
<1> QED BY <1>1, <1>2 DEF ObjectOK

\* The elements of objects are values that refer to what there is.
LEMMA ElementOK ==
    ASSUME HeapOK, NEW a \in DOMAIN heap, NEW k \in DOMAIN heap[a].at
    PROVE  Element(a, k) \in Values_ /\ ValueOK(Element(a, k))
<1>1. PICK o : o = heap[a]
  OBVIOUS
<1>2. o \in Objects_ /\ ObjectOK(o) /\ k \in DOMAIN o.at
  BY <1>1 DEF HeapOK
<1>3. CASE o.kind = "table"
  <2>1. o.at \in Bindings(Cells)
    BY <1>2, <1>3 DEF Objects_
  <2>2. o.at[k] \in Cells
    BY <1>2, <2>1, BindingsDef
  <2>3. Element(a, k) = o.at[k].val
    BY <1>1, <1>3 DEF Element, Tables
  <2>4. o.at[k].val \in Values_ /\ ValueOK(o.at[k].val)
    BY <1>2, <1>3, <2>2 DEF Cells, ObjectOK
  <2> QED BY <2>3, <2>4
<1>4. CASE o.kind # "table"
  <2>1. o.at \in Bindings(Values_)
    BY <1>2, <1>4 DEF Objects_
  <2>2. Element(a, k) = o.at[k]
    BY <1>1, <1>4 DEF Element, Tables
  <2> QED BY <1>2, <1>4, <2>1, <2>2, BindingsDef DEF ObjectOK
<1> QED BY <1>3, <1>4

\* Everything that a program of goroutine t can name is a value.
LEMMA FoundOK ==
    ASSUME HeapOK, Types, OwnTables, NEW t \in Threads, Has(t), NEW x \in Found(t)
    PROVE  x \in Values_ /\ ValueOK(x)
<1>1. \A a \in DOMAIN heap : \A k \in DOMAIN heap[a].at :
         Element(a, k) \in Values_ /\ ValueOK(Element(a, k))
  BY ElementOK
<1>2. env[t] \in DOMAIN heap /\ heap[env[t]].kind = "table" /\ env[t] \in Nat
  BY DEF OwnTables, Has, Types
<1>3. \A k \in DOMAIN heap[env[t]].at : heap[env[t]].at[k].val = Element(env[t], k)
  BY <1>2 DEF Element, Tables
<1>4. EnvOf(env[t]) \in Values_ /\ ValueOK(EnvOf(env[t]))
  BY <1>2 DEF EnvOf, Values_, ValueOK, Tables
<1>5. PICK path \in Paths : x \in At(t, path)
  BY DEF Found, Has
<1>6. CASE path = <<>>
  BY <1>4, <1>5, <1>6 DEF At
<1>7. CASE path # <<>>
  <2> DEFINE X == {heap[env[t]].at[k].val : k \in {path[1]} \cap DOMAIN heap[env[t]].at}
  <2>1. \A y \in X : y \in Values_ /\ ValueOK(y)
    BY <1>1, <1>2, <1>3
  <2>2. CASE Len(path) = 1
    BY <1>5, <1>7, <2>1, <2>2 DEF At
  <2>3. CASE Len(path) # 1
    <3>1. PICK y \in X : /\ y.k \in {"ref", "env"}
                         /\ x \in {Element(y.addr, k) : k \in {path[2]} \cap DOMAIN heap[y.addr].at}
      BY <1>5, <1>7, <2>3 DEF At
    <3>2. y.addr \in DOMAIN heap
      BY <2>1, <3>1 DEF ValueOK, Tables
    <3> QED BY <1>1, <3>1, <3>2
  <2> QED BY <2>2, <2>3
<1> QED BY <1>6, <1>7

\* Objects that a program can name are no tables.
LEMMA ObjectsOK ==
    ASSUME HeapOK, Types, OwnTables, NEW t \in Threads, Has(t), NEW a \in Objects(t)
    PROVE  a \in DOMAIN heap /\ heap[a].kind # "table"
<1>1. PICK x \in Found(t) : x.k = "ref" /\ a = x.addr
  BY DEF Objects
<1>2. ValueOK(x)
  BY <1>1, FoundOK
<1> QED BY <1>1, <1>2 DEF ValueOK, Tables

-----------------------------------------------------------------------------
(***************************************************************************)
(* Calls that bind a key of the caller's environment: SetNumber, SetNew,   *)
(* Store and StoreNew.                                                     *)
(***************************************************************************)

\* Key k of t's table is bound to cell c; a new object may come with it.
Rebinds(t, k, c) ==
    /\ heap' \in Seq(Objects_)
    /\ DOMAIN heap \subseteq DOMAIN heap'
    /\ \A a \in DOMAIN heap : a # env[t] => heap'[a] = heap[a]
    /\ heap'[env[t]].kind = "table"
    /\ heap'[env[t]].at = Bound(heap[env[t]].at, k, c)
    /\ \A a \in DOMAIN heap' \ DOMAIN heap : heap'[a].kind # "table" /\ heap'[a].at = <<>>
    /\ ValueOK(c.val)'

\* What Go gave for a key is recorded, or forgotten when a program binds the key.
Records(t, k, c) ==
    \/ given' = [given EXCEPT ![t] = Bound(@, k, c)] /\ IsGiven(c)'
    \/ given' = [given EXCEPT ![t] = Restrict(@, DOMAIN @ \ {k})]

\* A new entry in a table leaves a well-formed heap,
LEMMA RebindsHeap ==
    ASSUME HeapOK, OwnTables, NEW t \in Threads, Has(t), NEW k \in Keys, NEW c \in Cells,
           Rebinds(t, k, c)
    PROVE  HeapOK' /\ Grown
<1>1. env[t] \in DOMAIN heap /\ heap[env[t]].kind = "table"
  BY DEF OwnTables, Has
<1>2. Grown
  BY <1>1 DEF Grown, Rebinds
<1>3. ASSUME NEW a \in DOMAIN heap', ~(a \in DOMAIN heap /\ heap'[a] = heap[a])
      PROVE  \E o : heap'[a] = o /\ ObjectOK(o)'
  <2>1. PICK p : p = heap'[a]
    OBVIOUS
  <2>2. CASE a = env[t]
    <3>1. PICK o : o = heap[env[t]]
      OBVIOUS
    <3>2. o \in Objects_ /\ ObjectOK(o) /\ o.kind = "table"
      BY <1>1, <3>1 DEF HeapOK
    <3>3. p.kind = o.kind /\ p.at = Bound(o.at, k, c) /\ ValueOK(c.val)'
      BY <2>1, <2>2, <3>1, <3>2 DEF Rebinds
    <3>4. ObjectOK(p)'
      BY <1>2, <3>2, <3>3, ObjectRebound
    <3> QED BY <2>1, <3>4
  <2>3. CASE a # env[t]
    <3>1. p.kind # "table" /\ p.at = <<>>
      BY <1>3, <2>1, <2>3 DEF Rebinds
    <3>2. ObjectOK(p)'
      BY <3>1, EmptyBindings DEF ObjectOK
    <3> QED BY <2>1, <3>2
  <2> QED BY <2>2, <2>3
<1>4. HeapOK'
  BY <1>2, <1>3, HeapOKKept DEF Rebinds
<1> QED BY <1>2, <1>4

\* Tables and references stay what they are.
LEMMA RebindsOthers ==
    ASSUME Inv, NEW t \in Threads, Has(t), NEW k \in Keys, NEW c \in Cells,
           Rebinds(t, k, c), Records(t, k, c),
           UNCHANGED <<env, iter, dead>>
    PROVE  Types' /\ OwnTables' /\ OtherRefs'
<1>1. Grown
  BY RebindsHeap DEF Inv
<1>2. given[t] \in Bindings(Cells)
  BY DEF Inv, Types
<1>3. Bound(given[t], k, c) \in Bindings(Cells)
  BY <1>2, BoundType
<1>4. Restrict(given[t], DOMAIN given[t] \ {k}) \in Bindings(Cells)
  BY <1>2, RestrictType
<1>5. given' \in [Threads -> Bindings(Cells)]
  BY <1>3, <1>4 DEF Inv, Types, Records
<1>7. Types'
  BY <1>5 DEF Inv, Types
<1>8. OwnTables'
  BY <1>1 DEF Inv, OwnTables, Grown
<1>9. OtherRefs'
  BY <1>1 DEF Inv, OtherRefs, Grown
<1> QED BY <1>7, <1>8, <1>9

\* The tables of the other goroutines, and the other keys, are what they were.
LEMMA RebindsTables ==
    ASSUME Inv, NEW t \in Threads, Has(t), NEW k \in Keys, NEW c \in Cells,
           Rebinds(t, k, c), env' = env
    PROVE  /\ \A u \in Threads \ {t} : Has(u) => heap'[env[u]] = heap[env[u]]
           /\ DOMAIN heap'[env[t]].at = DOMAIN heap[env[t]].at \cup {k}
           /\ heap'[env[t]].at[k] = c
           /\ \A j \in DOMAIN heap[env[t]].at : j # k => heap'[env[t]].at[j] = heap[env[t]].at[j]
<1>1. \A u \in Threads \ {t} : Has(u) => heap'[env[u]] = heap[env[u]]
  BY DEF Inv, OwnTables, Has, Rebinds
<1> QED BY <1>1 DEF Rebinds, Bound

\* and with it the whole invariant, and is a step of the abstract store.
LEMMA Rebinding ==
    ASSUME Inv, NEW t \in Threads, Has(t), NEW k \in Keys, NEW c \in Cells,
           Rebinds(t, k, c), Records(t, k, c),
           UNCHANGED <<env, iter, dead>>
    PROVE  Inv' /\ Stores!Bind(t, k)
<1>1. /\ \A u \in Threads \ {t} : Has(u) => heap'[env[u]] = heap[env[u]]
      /\ DOMAIN heap'[env[t]].at = DOMAIN heap[env[t]].at \cup {k}
      /\ heap'[env[t]].at[k] = c
      /\ \A j \in DOMAIN heap[env[t]].at : j # k => heap'[env[t]].at[j] = heap[env[t]].at[j]
  BY RebindsTables
<1>6. \A d : IsGiven(d) => IsGiven(d)'
  BY RebindsHeap, Kept DEF Inv
<1>2. GivenIsBound'
  <2>1. ASSUME NEW u \in Threads \ {t}
        PROVE  given'[u] = given[u]
    BY DEF Records, Inv, Types
  <2>2. ASSUME NEW j \in DOMAIN given'[t]
        PROVE  /\ j \in DOMAIN heap'[env[t]].at
               /\ heap'[env[t]].at[j] = given'[t][j]
               /\ IsGiven(given[t][j])'
    <3>1. CASE given' = [given EXCEPT ![t] = Bound(@, k, c)] /\ IsGiven(c)'
      <4>1. given'[t] = Bound(given[t], k, c)
        BY <3>1 DEF Inv, Types
      <4>2. CASE j = k
        BY <1>1, <3>1, <4>1, <4>2 DEF Bound
      <4>3. CASE j # k
        <5>1. j \in DOMAIN given[t] /\ given'[t][j] = given[t][j]
          BY <2>2, <4>1, <4>3 DEF Bound
        <5> QED BY <1>1, <1>6, <4>3, <5>1 DEF Inv, GivenIsBound
      <4> QED BY <4>2, <4>3
    <3>2. CASE given' = [given EXCEPT ![t] = Restrict(@, DOMAIN @ \ {k})]
      <4>1. given'[t] = Restrict(given[t], DOMAIN given[t] \ {k})
        BY <3>2 DEF Inv, Types
      <4>2. j \in DOMAIN given[t] /\ j # k /\ given'[t][j] = given[t][j]
        BY <2>2, <4>1 DEF Restrict
      <4> QED BY <1>1, <1>6, <4>2 DEF Inv, GivenIsBound
    <3> QED BY <3>1, <3>2 DEF Records
  <2> QED BY <1>1, <1>6, <2>1, <2>2 DEF GivenIsBound, Has, Inv
<1>3. RangeFindsValues'
  <2>1. ASSUME NEW u \in Threads, Has(u) PROVE DOMAIN heap[env[u]].at \subseteq DOMAIN heap'[env[u]].at
    <3>1. CASE u = t
      BY <1>1, <3>1
    <3>2. CASE u # t
      BY <1>1, <2>1, <3>2
    <3> QED BY <3>1, <3>2
  <2>2. \A u \in Threads : iter[u] # NoIter /\ iter[u].table = env[u] => Has(u)
    BY DEF Inv, OtherRefs, HeapOK, Has
  <2> QED BY <2>1, <2>2 DEF Inv, RangeFindsValues
<1>4. HeapOK' /\ Types' /\ OwnTables' /\ OtherRefs'
  BY RebindsHeap, RebindsOthers DEF Inv
<1>5. Stores!Bind(t, k)
  BY <1>1 DEF Stores!Bind, Has
<1> QED BY <1>2, <1>3, <1>4, <1>5 DEF Inv

\* Bind does what it is meant to.
LEMMA BindOK ==
    ASSUME HeapOK, OwnTables, NEW t \in Threads, Has(t), NEW k \in Keys, NEW c \in Cells
    PROVE  /\ Bind(t, k, c) \in Seq(Objects_)
           /\ DOMAIN Bind(t, k, c) = DOMAIN heap
           /\ Bind(t, k, c)[env[t]].kind = "table"
           /\ Bind(t, k, c)[env[t]].at = Bound(heap[env[t]].at, k, c)
           /\ \A b \in DOMAIN heap : b # env[t] => Bind(t, k, c)[b] = heap[b]
<1>1. PICK h : h = heap
  OBVIOUS
<1>2. PICK a : a = env[t]
  OBVIOUS
<1>3. h \in Seq(Objects_) /\ a \in DOMAIN h /\ h[a].kind = "table"
  BY <1>1, <1>2 DEF HeapOK, OwnTables, Has
<1>4. h[a].at \in Bindings(Cells)
  BY <1>3 DEF Objects_
<1>5. PICK f : f = Bound(h[a].at, k, c)
  OBVIOUS
<1>6. f \in Bindings(Cells)
  BY <1>4, <1>5, BoundType
<1>7. Bind(t, k, c) = [h EXCEPT ![a].at = f]
  BY <1>1, <1>2, <1>5 DEF Bind
<1>8. /\ [h EXCEPT ![a].at = f] \in Seq(Objects_)
      /\ DOMAIN [h EXCEPT ![a].at = f] = DOMAIN h
      /\ [h EXCEPT ![a].at = f][a].kind = h[a].kind
      /\ [h EXCEPT ![a].at = f][a].at = f
      /\ \A b \in DOMAIN h : b # a => [h EXCEPT ![a].at = f][b] = h[b]
  BY <1>3, <1>6, Rebound
<1> QED BY <1>1, <1>2, <1>3, <1>5, <1>7, <1>8

\* A value that exists is bound.
LEMMA RebindsOld ==
    ASSUME HeapOK, OwnTables, NEW t \in Threads, Has(t), NEW k \in Keys, NEW c \in Cells,
           heap' = Bind(t, k, c), ValueOK(c.val)
    PROVE  Rebinds(t, k, c)
<1>1. env[t] \in DOMAIN heap /\ heap[env[t]].kind = "table"
  BY DEF OwnTables, Has
<1>2. /\ heap' \in Seq(Objects_) /\ DOMAIN heap' = DOMAIN heap
      /\ heap'[env[t]].kind = "table"
      /\ heap'[env[t]].at = Bound(heap[env[t]].at, k, c)
      /\ \A b \in DOMAIN heap : b # env[t] => heap'[b] = heap[b]
  BY BindOK
<1>3. Grown
  BY <1>1, <1>2 DEF Grown
<1>4. ValueOK(c.val)'
  BY <1>3, Kept
<1> QED BY <1>2, <1>4 DEF Rebinds

\* A new object is bound.
LEMMA RebindsNew ==
    ASSUME HeapOK, OwnTables, NEW t \in Threads, Has(t), NEW k \in Keys,
           NEW kind \in {"ints", "any", "fixed"},
           NEW c, c = Cell(kind, Ref(Len(heap) + 1)),
           heap' = Append(Bind(t, k, c), [kind |-> kind, at |-> <<>>])
    PROVE  c \in Cells /\ Rebinds(t, k, c) /\ IsGiven(c)'
<1>1. PICK n : n = Len(heap) + 1
  OBVIOUS
<1>2. n \in Nat /\ n \notin DOMAIN heap
  BY <1>1 DEF HeapOK
<1>3. c = Cell(kind, Ref(n))
  BY <1>1
<1>4. c \in Cells /\ c.val = [k |-> "ref", addr |-> n] /\ c.orig = kind
  BY <1>2, <1>3 DEF Cells, Cell, Ref, Values_, Origs
<1>5. PICK o : o = [kind |-> kind, at |-> <<>>]
  OBVIOUS
<1>6. o \in Objects_ /\ o.kind = kind /\ o.at = <<>>
  BY <1>5, EmptyBindings DEF Objects_
<1>7. PICK h : h = Bind(t, k, c)
  OBVIOUS
<1>8. /\ h \in Seq(Objects_) /\ DOMAIN h = DOMAIN heap
      /\ h[env[t]].kind = "table"
      /\ h[env[t]].at = Bound(heap[env[t]].at, k, c)
      /\ \A b \in DOMAIN heap : b # env[t] => h[b] = heap[b]
  BY <1>4, <1>7, BindOK
<1>9. Len(h) + 1 = n
  BY <1>1, <1>8 DEF HeapOK
<1>10. heap' = Append(h, o)
  BY <1>1, <1>3, <1>5, <1>7
<1>11. /\ heap' \in Seq(Objects_)
       /\ DOMAIN heap' = DOMAIN h \cup {n}
       /\ heap'[n] = o
       /\ \A b \in DOMAIN h : heap'[b] = h[b]
  <2>1. h \in Seq(Objects_) /\ o \in Objects_
    BY <1>6, <1>8
  <2>2. /\ Append(h, o) \in Seq(Objects_)
        /\ DOMAIN Append(h, o) = DOMAIN h \cup {Len(h) + 1}
        /\ Append(h, o)[Len(h) + 1] = o
        /\ \A b \in DOMAIN h : Append(h, o)[b] = h[b]
    BY <2>1, Appended
  <2> QED BY <1>9, <1>10, <2>2
<1>12. env[t] \in DOMAIN heap
  BY DEF OwnTables, Has
<1>13. c.val.k = "ref" /\ c.val.addr = n
  BY <1>4
<1>14. ValueOK(c.val)'
  BY <1>6, <1>11, <1>13 DEF ValueOK, Tables
<1>15. Rebinds(t, k, c)
  BY <1>2, <1>6, <1>8, <1>11, <1>12, <1>14 DEF Rebinds
<1>16. IsGiven(c)'
  <2>1. c.val.k = "ref" /\ c.val.addr = n /\ c.orig = kind
    BY <1>4
  <2>2. n \in DOMAIN heap' /\ heap'[n].kind = kind /\ kind \in Kinds
    BY <1>6, <1>11 DEF Kinds
  <2> QED BY <2>1, <2>2 DEF IsGiven
<1> QED BY <1>4, <1>15, <1>16

\* A new number.
LEMMA SetNumberOK ==
    ASSUME Inv, NEW t \in Threads, NEW k \in Keys, NEW g \in GoInts, SetNumber(t, k, g[1], g[2])
    PROVE  /\ Inv' /\ Stores!Bind(t, k)
           /\ \E c \in Cells : Rebinds(t, k, c) /\ c.val.k = "int"
<1>1. PICK c : c = Cell(g[1], Int_(g[2]))
  OBVIOUS
<1>2. c \in Cells /\ c.val = [k |-> "int", n |-> g[2]]
  <2>1. [k |-> "int", n |-> g[2]] \in Values_
    BY DEF Values_
  <2>2. g[1] \in Origs
    BY GoIntsAssumption DEF Origs
  <2> QED BY <1>1, <2>1, <2>2 DEF Cells, Cell, Int_
<1>3. c.val.k = "int" /\ ValueOK(c.val) /\ IsGiven(c)'
  BY <1>2 DEF ValueOK, IsGiven
<1>4. Rebinds(t, k, c)
  BY <1>1, <1>2, <1>3, RebindsOld DEF SetNumber, Inv
<1>5. Records(t, k, c)
  BY <1>1, <1>3 DEF Records, SetNumber
<1> QED BY <1>2, <1>3, <1>4, <1>5, Rebinding DEF SetNumber

\* A new map or list.
LEMMA SetNewOK ==
    ASSUME Inv, NEW t \in Threads, NEW k \in Keys, NEW kind \in {"ints", "any", "fixed"},
           SetNew(t, k, kind)
    PROVE  /\ Inv' /\ Stores!Bind(t, k)
           /\ \E c \in Cells : Rebinds(t, k, c) /\ c.val = Ref(Len(heap) + 1)
<1>1. PICK c : c = Cell(kind, Ref(Len(heap) + 1))
  OBVIOUS
<1>2. c \in Cells /\ Rebinds(t, k, c) /\ IsGiven(c)'
  BY <1>1, RebindsNew DEF SetNew, Inv
<1>4. c.val = Ref(Len(heap) + 1)
  BY <1>1 DEF Cell
<1>3. Records(t, k, c)
  BY <1>1, <1>2 DEF Records, SetNew
<1> QED BY <1>2, <1>3, <1>4, Rebinding DEF SetNew

\* store of a new map or list.
LEMMA StoreNewOK ==
    ASSUME Inv, NEW t \in Threads, NEW k \in Keys, StoreNew(t, k)
    PROVE  /\ Inv' /\ Stores!Bind(t, k)
           /\ \E c \in Cells : Rebinds(t, k, c) /\ c.val = Ref(Len(heap) + 1)
<1>1. PICK c : c = Cell("fixed", Ref(Len(heap) + 1))
  OBVIOUS
<1>4. c.val = Ref(Len(heap) + 1)
  BY <1>1 DEF Cell
<1>2. c \in Cells /\ Rebinds(t, k, c)
  BY <1>1, RebindsNew DEF StoreNew, Inv
<1>3. Records(t, k, c)
  BY <1>1 DEF Records, StoreNew
<1> QED BY <1>2, <1>3, <1>4, Rebinding DEF StoreNew

\* The type recorded for a stored value is the name of a type.
LEMMA OrigTypeOK ==
    ASSUME HeapOK, NEW x \in Values_, ValueOK(x)
    PROVE  OrigType(x) \in Origs
<1>1. CASE x.k = "ref"
  <2>1. heap[x.addr] \in Objects_
    BY <1>1 DEF ValueOK, HeapOK
  <2>2. heap[x.addr].kind \in Origs
    BY <2>1 DEF Objects_, Origs
  <2> QED BY <1>1, <2>2 DEF OrigType
<1>2. CASE x.k # "ref"
  BY <1>2 DEF OrigType, Origs
<1> QED BY <1>1, <1>2

\* Literals and what a program finds.
LEMMA OperandsOK ==
    ASSUME HeapOK, Types, OwnTables, NEW t \in Threads, Has(t), NEW x \in Operands(t)
    PROVE  x \in Values_ /\ ValueOK(x)
BY FoundOK DEF Operands, Values_, ValueOK, Null, Type

\* store either binds its key, fails, or ends the process.
LEMMA StoreOK ==
    ASSUME Inv, NEW t \in Threads, NEW k \in Keys, NEW x \in Operands(t), Store(t, k, x)
    PROVE  \/ /\ Inv' /\ Stores!Bind(t, k) /\ Spread(env[t], x)
              /\ \E c \in Cells : Rebinds(t, k, c) /\ c.val = x
           \/ /\ shared' = shared
              /\ UNCHANGED <<heap, env, iter, given>>
              /\ dead' \in BOOLEAN
<1>1. x \in Values_ /\ ValueOK(x)
  BY OperandsOK DEF Store, Inv
<1>2. OrigType(x) \in Origs
  BY <1>1, OrigTypeOK DEF Inv
<1>3. PICK c : c = Cell(OrigType(x), x)
  OBVIOUS
<1>4. c \in Cells /\ c.val = x
  BY <1>1, <1>2, <1>3 DEF Cells, Cell
<1>5. CASE heap' = Bind(t, k, c) /\ UNCHANGED dead
           /\ given' = [given EXCEPT ![t] = Restrict(@, DOMAIN @ \ {k})]
           /\ Spread(env[t], x)
  <2>1. Rebinds(t, k, c)
    BY <1>1, <1>4, <1>5, RebindsOld DEF Store, Inv
  <2>2. Records(t, k, c)
    BY <1>5 DEF Records
  <2> QED BY <1>4, <1>5, <2>1, <2>2, Rebinding DEF Store
<1> QED BY <1>3, <1>5 DEF Store, Inv, OtherRefs

-----------------------------------------------------------------------------
(***************************************************************************)
(* Calls that take a binding or a whole environment away, or make one.     *)
(***************************************************************************)

\* Set(key, nil).
LEMMA DeleteOK ==
    ASSUME Inv, NEW t \in Threads, NEW k \in Keys, Delete(t, k)
    PROVE  /\ Inv' /\ Stores!Delete(t, k)
           /\ DOMAIN heap' = DOMAIN heap
           /\ heap'[env[t]].kind = "table"
           /\ \A j \in DOMAIN heap'[env[t]].at :
                 j \in DOMAIN heap[env[t]].at /\ heap'[env[t]].at[j] = heap[env[t]].at[j]
           /\ \A b \in DOMAIN heap : b # env[t] => heap'[b] = heap[b]
<1>1. PICK h : h = heap
  OBVIOUS
<1>2. PICK a : a = env[t]
  OBVIOUS
<1>3. /\ h \in Seq(Objects_) /\ a \in DOMAIN h /\ h[a].kind = "table"
      /\ Has(t) /\ Idle(t) /\ ObjectOK(h[a])
  BY <1>1, <1>2 DEF Inv, HeapOK, OwnTables, Has, Delete
<1>4. h[a].at \in Bindings(Cells)
  BY <1>3 DEF Objects_
<1>5. PICK f : f = Restrict(h[a].at, DOMAIN h[a].at \ {k})
  OBVIOUS
<1>6. /\ f \in Bindings(Cells) /\ DOMAIN f = DOMAIN h[a].at \ {k}
      /\ \A j \in DOMAIN f : f[j] = h[a].at[j]
  BY <1>4, <1>5, RestrictType
<1>7. heap' = [h EXCEPT ![a].at = f]
  BY <1>1, <1>2, <1>5 DEF Delete
<1>8. /\ [h EXCEPT ![a].at = f] \in Seq(Objects_)
      /\ DOMAIN [h EXCEPT ![a].at = f] = DOMAIN h
      /\ [h EXCEPT ![a].at = f][a].kind = h[a].kind
      /\ [h EXCEPT ![a].at = f][a].at = f
      /\ \A b \in DOMAIN h : b # a => [h EXCEPT ![a].at = f][b] = h[b]
  BY <1>3, <1>6, Rebound
<1>9. /\ heap' \in Seq(Objects_) /\ DOMAIN heap' = DOMAIN heap
      /\ heap'[env[t]].kind = "table" /\ heap'[env[t]].at = f
      /\ \A b \in DOMAIN heap : b # env[t] => heap'[b] = heap[b]
  BY <1>1, <1>2, <1>3, <1>7, <1>8
<1>10. Grown
  BY <1>1, <1>2, <1>3, <1>9 DEF Grown
<1>11. HeapOK'
  <2>1. PICK p : p = heap'[env[t]]
    OBVIOUS
  <2>2. \A j \in DOMAIN f : ValueOK(f[j].val)
    BY <1>3, <1>6 DEF ObjectOK
  <2>3. ObjectOK(p)
    BY <1>9, <2>1, <2>2 DEF ObjectOK
  <2> QED BY <1>9, <1>10, <2>1, <2>3, Kept, HeapOKKept DEF Inv
<1>12. given[t] \in Bindings(Cells)
  BY DEF Inv, Types
<1>13. PICK g : g = Restrict(given[t], DOMAIN given[t] \ {k})
  OBVIOUS
<1>14. /\ g \in Bindings(Cells) /\ DOMAIN g = DOMAIN given[t] \ {k}
       /\ \A j \in DOMAIN g : g[j] = given[t][j]
  BY <1>12, <1>13, RestrictType
<1>15. given' = [given EXCEPT ![t] = g]
  BY <1>13 DEF Delete
<1>16. /\ given' \in [Threads -> Bindings(Cells)] /\ given'[t] = g
       /\ \A u \in Threads \ {t} : given'[u] = given[u]
  BY <1>14, <1>15 DEF Inv, Types
<1>17. UNCHANGED <<env, iter, dead>>
  BY DEF Delete
<1>18. Types'
  BY <1>16, <1>17 DEF Inv, Types
<1>19. OwnTables' /\ OtherRefs'
  BY <1>10, <1>17 DEF Inv, OwnTables, OtherRefs, Grown
<1>20. \A u \in Threads \ {t} : Has(u) => heap'[env[u]] = heap[env[u]]
  BY <1>3, <1>9 DEF Inv, OwnTables, Has
<1>21. GivenIsBound'
  <2>1. ASSUME NEW j \in DOMAIN g
        PROVE  /\ j \in DOMAIN heap'[env[t]].at
               /\ heap'[env[t]].at[j] = g[j]
               /\ IsGiven(g[j])'
    BY <1>1, <1>2, <1>6, <1>9, <1>10, <1>14, Kept DEF Inv, GivenIsBound
  <2> QED BY <1>3, <1>10, Kept, <1>16, <1>17, <1>20, <2>1 DEF Inv, GivenIsBound, Has
<1>22. RangeFindsValues'
  <2>1. \A u \in Threads : iter[u] # NoIter => u # t
    BY <1>3 DEF Idle
  <2>2. \A u \in Threads : iter[u] # NoIter /\ iter[u].table = env[u] => Has(u)
    BY DEF Inv, OtherRefs, HeapOK, Has
  <2> QED BY <1>17, <1>20, <2>1, <2>2 DEF Inv, RangeFindsValues
<1>23. Stores!Delete(t, k)
  <2>1. /\ Has(t) /\ heap[env[t]].at = h[a].at /\ env' = env
    BY <1>1, <1>2, <1>3, <1>17
  <2>2. heap'[env[t]].at = Restrict(heap[env[t]].at, DOMAIN heap[env[t]].at \ {k})
    BY <1>5, <1>9, <2>1
  <2>3. \A f_ : \A S : Stores!Restrict(f_, S) = Restrict(f_, S)
    BY DEF Stores!Restrict, Restrict
  <2>4. PICK r : r = heap'[env[t]].at
    OBVIOUS
  <2>5. r = Stores!Restrict(heap[env[t]].at, DOMAIN heap[env[t]].at \ {k})
    BY <2>2, <2>3, <2>4
  <2> QED BY <1>20, <2>1, <2>4, <2>5 DEF Stores!Delete, Has
<1>24. \A j \in DOMAIN heap'[env[t]].at :
          j \in DOMAIN heap[env[t]].at /\ heap'[env[t]].at[j] = heap[env[t]].at[j]
  BY <1>1, <1>2, <1>6, <1>9
<1> QED BY <1>9, <1>11, <1>18, <1>19, <1>21, <1>22, <1>23, <1>24 DEF Inv

\* A goroutine without a running range gets a new table.
LEMMA NewTableOK ==
    ASSUME Inv, NEW u \in Threads, Idle(u), NEW at \in Bindings(Cells),
           \A k \in DOMAIN at : ValueOK(at[k].val),
           NewTable(u, at), UNCHANGED <<iter, dead>>
    PROVE  /\ HeapOK' /\ OwnTables' /\ OtherRefs' /\ RangeFindsValues'
           /\ env' \in [Threads -> Nat]
           /\ Grown /\ env'[u] # 0 /\ heap'[env'[u]].at = at
           /\ \A v \in Threads \ {u} : env'[v] = env[v]
           /\ \A v \in Threads \ {u} : Has(v) => heap'[env[v]] = heap[env[v]]
<1>1. PICK n : n = Len(heap) + 1
  OBVIOUS
<1>2. PICK o : o = [kind |-> "table", at |-> at]
  OBVIOUS
<1>3. o \in Objects_ /\ o.kind = "table" /\ o.at = at
  BY <1>2 DEF Objects_
<1>4. ObjectOK(o)
  BY <1>3 DEF ObjectOK
<1>5. heap' = Append(heap, o) /\ env' = [env EXCEPT ![u] = n]
  BY <1>1, <1>2 DEF NewTable
<1>6. /\ heap' \in Seq(Objects_)
      /\ DOMAIN heap' = DOMAIN heap \cup {n}
      /\ heap'[n] = o
      /\ \A b \in DOMAIN heap : heap'[b] = heap[b]
      /\ n \notin DOMAIN heap /\ n \in Nat \ {0}
  <2>1. heap \in Seq(Objects_)
    BY DEF Inv, HeapOK
  <2>2. /\ Append(heap, o) \in Seq(Objects_)
        /\ DOMAIN Append(heap, o) = DOMAIN heap \cup {Len(heap) + 1}
        /\ Append(heap, o)[Len(heap) + 1] = o
        /\ \A b \in DOMAIN heap : Append(heap, o)[b] = heap[b]
        /\ Len(heap) + 1 \notin DOMAIN heap /\ Len(heap) \in Nat
    BY <1>3, <2>1, Appended
  <2> QED BY <1>1, <1>5, <2>2
<1>7. Grown
  BY <1>6 DEF Grown
<1>8. HeapOK'
  BY <1>4, <1>6, <1>7, Kept, HeapOKKept DEF Inv
<1>9. /\ env' \in [Threads -> Nat] /\ env'[u] = n
      /\ \A v \in Threads \ {u} : env'[v] = env[v]
  BY <1>5, <1>6 DEF Inv, Types
<1>10. \A v \in Threads : Has(v) => env[v] \in DOMAIN heap
  BY DEF Inv, OwnTables, Has
<1>11. OwnTables'
  <2>1. \A v \in Threads : env'[v] # 0 => env'[v] \in DOMAIN heap' /\ heap'[env'[v]].kind = "table"
    BY <1>3, <1>6, <1>9 DEF Inv, OwnTables
  <2>2. \A v, w \in Threads : v # w /\ env'[v] = env'[w] => env'[v] = 0
    BY <1>6, <1>9, <1>10 DEF Inv, OwnTables, Has
  <2> QED BY <2>1, <2>2 DEF OwnTables
<1>12. OtherRefs'
  BY <1>6 DEF Inv, OtherRefs
<1>13. RangeFindsValues'
  <2>1. \A v \in Threads : iter[v] # NoIter => v # u
    BY DEF Idle
  <2>2. \A v \in Threads : iter[v] # NoIter /\ iter[v].table = env[v] => Has(v)
    BY DEF Inv, OtherRefs, HeapOK, Has
  <2> QED BY <1>6, <1>9, <1>10, <2>1, <2>2 DEF Inv, RangeFindsValues
<1> QED BY <1>3, <1>6, <1>7, <1>8, <1>9, <1>10, <1>11, <1>12, <1>13

\* NewEnv, once per goroutine.
LEMMA NewEnvOK ==
    ASSUME Inv, NEW t \in Threads, NewEnv(t)
    PROVE  Inv' /\ Stores!New(t)
<1>1. <<>> \in Bindings(Cells) /\ \A k \in DOMAIN <<>> : ValueOK(<<>>[k].val)
  BY EmptyBindings
<1>3. /\ HeapOK' /\ OwnTables' /\ OtherRefs' /\ RangeFindsValues'
      /\ env' \in [Threads -> Nat]
      /\ Grown /\ env'[t] # 0 /\ heap'[env'[t]].at = <<>>
      /\ \A v \in Threads \ {t} : env'[v] = env[v]
      /\ \A v \in Threads \ {t} : Has(v) => heap'[env[v]] = heap[env[v]]
  BY <1>1, NewTableOK DEF NewEnv
<1>4. Types'
  BY <1>3 DEF Inv, Types, NewEnv
<1>5. DOMAIN given[t] = {}
  BY DEF Inv, GivenIsBound, NewEnv, Has
<1>6. GivenIsBound'
  BY <1>3, <1>5, Kept DEF Inv, GivenIsBound, NewEnv, Has
<1>7. Stores!New(t)
  <2>1. PICK none : none = <<>>
    OBVIOUS
  <2>2. heap'[env'[t]].at = none
    BY <1>3, <2>1
  <2> QED BY <1>3, <2>1, <2>2 DEF Stores!New, Has
<1> QED BY <1>3, <1>4, <1>6, <1>7 DEF Inv

\* Clone.
LEMMA CloneOK ==
    ASSUME Inv, NEW t \in Threads, NEW u \in Threads, Clone(t, u)
    PROVE  Inv' /\ Stores!Clone(t, u)
<1>1. env[t] \in DOMAIN heap /\ heap[env[t]].kind = "table" /\ t # u /\ Has(t)
  BY DEF Clone, Inv, OwnTables, Has
<1>2. PICK at : at = heap[env[t]].at
  OBVIOUS
<1>3. at \in Bindings(Cells) /\ \A k \in DOMAIN at : ValueOK(at[k].val)
  BY <1>1, <1>2 DEF Inv, HeapOK, Objects_, ObjectOK
<1>6. /\ HeapOK' /\ OwnTables' /\ OtherRefs' /\ RangeFindsValues'
      /\ env' \in [Threads -> Nat]
      /\ Grown /\ env'[u] # 0 /\ heap'[env'[u]].at = at
      /\ \A v \in Threads \ {u} : env'[v] = env[v]
      /\ \A v \in Threads \ {u} : Has(v) => heap'[env[v]] = heap[env[v]]
  BY <1>2, <1>3, NewTableOK DEF Clone
<1>7. Types'
  BY <1>6 DEF Inv, Types, Clone
<1>8. given' = [given EXCEPT ![u] = given[t]]
  BY DEF Clone
<1>9. GivenIsBound'
  <2>1. given'[u] = given[t] /\ \A v \in Threads \ {u} : given'[v] = given[v]
    BY <1>8 DEF Inv, Types
  <2>2. ASSUME NEW k \in DOMAIN given[t], NEW g, g = given[t][k]
        PROVE  k \in DOMAIN at /\ at[k] = g /\ IsGiven(g)'
    <3>1. IsGiven(g) /\ k \in DOMAIN at /\ at[k] = g
      BY <1>2, <2>2 DEF Inv, GivenIsBound
    <3> QED BY <1>6, <3>1, Kept
  <2>3. \A k \in DOMAIN given'[u] : /\ k \in DOMAIN heap'[env'[u]].at
                                    /\ heap'[env'[u]].at[k] = given'[u][k]
                                    /\ IsGiven(given[u][k])'
    BY <1>6, <2>1, <2>2
  <2> QED BY <1>6, Kept, <2>1, <2>3 DEF Inv, GivenIsBound, Has
<1>10. Stores!Clone(t, u)
  BY <1>1, <1>2, <1>6 DEF Stores!Clone, Has
<1> QED BY <1>6, <1>7, <1>9, <1>10 DEF Inv

-----------------------------------------------------------------------------
(***************************************************************************)
(* Steps that leave all tables alone.                                      *)
(***************************************************************************)

\* The stores do not change, nor what is true of them.
LEMMA TablesKept ==
    ASSUME Inv, HeapOK', Grown,
           \A a \in DOMAIN heap : heap[a].kind = "table" => heap'[a] = heap[a],
           UNCHANGED <<env, given>>, dead' \in BOOLEAN
    PROVE  /\ OwnTables' /\ GivenIsBound'
           /\ \A t \in Threads : Has(t) => heap'[env[t]] = heap[env[t]]
           /\ UNCHANGED [t \in Threads |-> IF Has(t) THEN heap[env[t]].at ELSE <<>>]
<1>1. \A t \in Threads : Has(t) => heap'[env[t]] = heap[env[t]]
  BY DEF Inv, OwnTables, Has
<1>2. OwnTables'
  BY DEF Inv, OwnTables, OtherRefs, Grown
<1>3. GivenIsBound'
  BY <1>1, Kept DEF Inv, GivenIsBound, Has
<1>4. UNCHANGED [t \in Threads |-> IF Has(t) THEN heap[env[t]].at ELSE <<>>]
  BY <1>1 DEF Has
<1> QED BY <1>1, <1>2, <1>3, <1>4

\* A key of a Go map is set.
LEMMA SetIndexOK ==
    ASSUME Inv, NEW t \in Threads, NEW a \in Objects(t), NEW k \in Keys,
           NEW x \in Operands(t), SetIndex(t, a, k, x)
    PROVE  /\ Inv' /\ UNCHANGED [u \in Threads |-> IF Has(u) THEN heap[env[u]].at ELSE <<>>]
           /\ a \in DOMAIN heap /\ heap[a].kind # "table" /\ DOMAIN heap' = DOMAIN heap
           /\ heap'[a].kind = heap[a].kind
           /\ heap'[a].at = Bound(heap[a].at, k, AsElement(heap[a].kind, x))
           /\ \A b \in DOMAIN heap : b # a => heap'[b] = heap[b]
<1>1. a \in DOMAIN heap /\ heap[a].kind # "table" /\ Has(t)
  BY ObjectsOK DEF SetIndex, Inv
<1>2. PICK o : o = heap[a]
  OBVIOUS
<1>3. /\ o \in Objects_ /\ ObjectOK(o) /\ o.kind \in {"ints", "any"}
      /\ o.kind = "ints" => x.k \in {"int", "null"}
  BY <1>1, <1>2 DEF Inv, HeapOK, SetIndex, Fits
<1>4. o.at \in Bindings(Values_)
  BY <1>3 DEF Objects_
<1>5. PICK y : y = AsElement(o.kind, x)
  OBVIOUS
<1>6. y \in Values_ /\ ValueOK(y) /\ (o.kind = "ints" => y.k = "int")
  <2>1. x \in Values_ /\ ValueOK(x)
    BY <1>1, OperandsOK DEF Inv
  <2>2. CASE o.kind = "ints" /\ x = Null
    <3>1. y = [k |-> "int", n |-> 0]
      BY <1>5, <2>2 DEF AsElement, Int_, Null, Type
    <3>2. [k |-> "int", n |-> 0] \in Values_
      BY DEF Values_
    <3> QED BY <3>1, <3>2 DEF ValueOK
  <2>3. CASE ~(o.kind = "ints" /\ x = Null) /\ x = Type
    <3>1. y = Name
      BY <1>5, <2>3 DEF AsElement
    <3> QED BY <1>3, <2>3, <3>1 DEF Values_, ValueOK, Name, Type
  <2>4. CASE ~(o.kind = "ints" /\ x = Null) /\ x # Type
    <3>1. y = x
      BY <1>5, <2>4 DEF AsElement
    <3>2. o.kind = "ints" /\ x.k = "null" => x = Null
      BY <2>1 DEF Values_, Null, Type, Name
    <3> QED BY <1>3, <2>1, <2>4, <3>1, <3>2
  <2> QED BY <2>2, <2>3, <2>4
<1>7. PICK f : f = Bound(o.at, k, y)
  OBVIOUS
<1>8. f \in Bindings(Values_) /\ k \in DOMAIN f
  <2>1. y \in Values_
    BY <1>6
  <2>2. Bound(o.at, k, y) \in Bindings(Values_)
    BY <1>4, <2>1, BoundType
  <2>3. DOMAIN Bound(o.at, k, y) = DOMAIN o.at \cup {k}
    BY DEF Bound
  <2> QED BY <1>7, <2>2, <2>3
<1>9. heap' = [heap EXCEPT ![a].at = f]
  BY <1>1, <1>2, <1>5, <1>7 DEF SetIndex
<1>10. /\ heap' \in Seq(Objects_) /\ DOMAIN heap' = DOMAIN heap
       /\ heap'[a].kind = o.kind /\ heap'[a].at = f
       /\ \A b \in DOMAIN heap : b # a => heap'[b] = heap[b]
  <2>1. PICK h : h = heap
    OBVIOUS
  <2>2. h \in Seq(Objects_) /\ a \in DOMAIN h /\ h[a].kind = o.kind
    BY <1>1, <1>2, <2>1 DEF Inv, HeapOK
  <2>3. /\ [h EXCEPT ![a].at = f] \in Seq(Objects_)
        /\ DOMAIN [h EXCEPT ![a].at = f] = DOMAIN h
        /\ [h EXCEPT ![a].at = f][a].kind = h[a].kind
        /\ [h EXCEPT ![a].at = f][a].at = f
        /\ \A b \in DOMAIN h : b # a => [h EXCEPT ![a].at = f][b] = h[b]
    BY <1>3, <1>8, <2>2, Rebound
  <2> QED BY <1>9, <2>1, <2>2, <2>3
<1>11. Grown
  BY <1>2, <1>10 DEF Grown
<1>12. HeapOK'
  <2>1. PICK p : p = heap'[a]
    OBVIOUS
  <2>2. ValueOK(y)'
    BY <1>6, <1>11, Kept
  <2>3. p.kind = o.kind /\ p.at = Bound(o.at, k, y)
    BY <1>7, <1>10, <2>1
  <2>4. o.kind # "table" /\ o.kind # "fixed"
    BY <1>3
  <2>5. ObjectOK(p)'
    BY <1>3, <1>6, <1>11, <2>2, <2>3, <2>4, ObjectRebound
  <2> QED BY <1>10, <1>11, <2>1, <2>5, HeapOKKept DEF Inv
<1>13. UNCHANGED <<env, iter, dead, given>>
  BY DEF SetIndex
<1>14. /\ OwnTables' /\ GivenIsBound'
       /\ \A u \in Threads : Has(u) => heap'[env[u]] = heap[env[u]]
       /\ UNCHANGED [u \in Threads |-> IF Has(u) THEN heap[env[u]].at ELSE <<>>]
  <2>1. \A b \in DOMAIN heap : heap[b].kind = "table" => heap'[b] = heap[b]
    BY <1>1, <1>10
  <2>2. dead' \in BOOLEAN
    BY <1>13 DEF Inv, OtherRefs
  <2> QED BY <1>11, <1>12, <1>13, <2>1, <2>2, TablesKept
<1>15. Types'
  BY <1>13 DEF Inv, Types
<1>16. OtherRefs'
  BY <1>1, <1>10, <1>11, <1>13, <1>14 DEF Inv, OtherRefs, Grown
<1>18. RangeFindsValues'
  <2>1. \A u \in Threads : iter[u] # NoIter /\ iter[u].table = env[u] => Has(u)
    BY DEF Inv, OtherRefs, HeapOK, Has
  <2> QED BY <1>13, <1>14, <2>1 DEF Inv, RangeFindsValues
<1>19. heap'[a].kind = heap[a].kind /\ heap'[a].at = Bound(heap[a].at, k, AsElement(heap[a].kind, x))
  BY <1>2, <1>5, <1>7, <1>10
<1> QED BY <1>1, <1>10, <1>12, <1>14, <1>15, <1>16, <1>18, <1>19 DEF Inv

\* Steps of ranges, and calls without effect or with which the process ends.
LEMMA QuietOK ==
    ASSUME Inv, UNCHANGED <<heap, env, given>>, dead' \in BOOLEAN,
           NEW t \in Threads,
           NEW i \in [table : Nat, todo : SUBSET Keys], iter' = [iter EXCEPT ![t] = i],
           i = NoIter \/ (i.table \in DOMAIN heap /\ heap[i.table].kind = "table"),
           i # NoIter /\ i.table = env[t] => i.todo \subseteq DOMAIN heap[env[t]].at
    PROVE  Inv' /\ UNCHANGED [u \in Threads |-> IF Has(u) THEN heap[env[u]].at ELSE <<>>]
<1>1. HeapOK' /\ Grown
  BY DEF Inv, HeapOK, ObjectOK, ValueOK, Tables, Grown
<1>2. /\ OwnTables' /\ GivenIsBound'
      /\ UNCHANGED [u \in Threads |-> IF Has(u) THEN heap[env[u]].at ELSE <<>>]
  BY <1>1, TablesKept
<1>3. Types'
  BY DEF Inv, Types
<1>4. iter'[t] = i /\ \A u \in Threads \ {t} : iter'[u] = iter[u]
  BY DEF Inv, Types
<1>5. OtherRefs'
  BY <1>2, <1>4 DEF Inv, OtherRefs
<1>6. RangeFindsValues'
  BY <1>4 DEF Inv, RangeFindsValues
<1> QED BY <1>1, <1>2, <1>3, <1>5, <1>6 DEF Inv

\* The same when the ranges do not change either.
LEMMA StillOK ==
    ASSUME Inv, UNCHANGED <<heap, env, iter, given>>, dead' \in BOOLEAN
    PROVE  Inv' /\ UNCHANGED [u \in Threads |-> IF Has(u) THEN heap[env[u]].at ELSE <<>>]
<1>1. HeapOK' /\ Grown
  BY DEF Inv, HeapOK, ObjectOK, ValueOK, Tables, Grown
<1>2. /\ OwnTables' /\ GivenIsBound'
      /\ UNCHANGED [u \in Threads |-> IF Has(u) THEN heap[env[u]].at ELSE <<>>]
  BY <1>1, TablesKept
<1>3. Types' /\ OtherRefs' /\ RangeFindsValues'
  BY <1>2 DEF Inv, Types, OtherRefs, RangeFindsValues
<1> QED BY <1>1, <1>2, <1>3 DEF Inv

\* A range that begins has only keys of its table to visit,
LEMMA IterateOK ==
    ASSUME Inv, NEW t \in Threads, NEW x \in Found(t), Iterate(t, x)
    PROVE  Inv' /\ UNCHANGED [u \in Threads |-> IF Has(u) THEN heap[env[u]].at ELSE <<>>]
<1>1. PICK i : i = [table |-> x.addr, todo |-> DOMAIN heap[x.addr].at]
  OBVIOUS
<1>2. x.addr \in DOMAIN heap /\ heap[x.addr].kind = "table"
  BY FoundOK DEF Inv, Iterate, ValueOK, Tables
<1>3. heap[x.addr].at \in Bindings(Cells) /\ x.addr \in Nat
  BY <1>2 DEF Inv, HeapOK, Objects_
<1>4. i \in [table : Nat, todo : SUBSET Keys]
  BY <1>1, <1>3, BindingsDef
<1>5. dead' \in BOOLEAN
  BY DEF Iterate, Inv, OtherRefs
<1> QED BY <1>1, <1>2, <1>4, <1>5, QuietOK DEF Iterate

\* one that goes on has fewer keys to visit, or ends,
LEMMA NextOK ==
    ASSUME Inv, NEW t \in Threads, Next_(t)
    PROVE  Inv' /\ UNCHANGED [u \in Threads |-> IF Has(u) THEN heap[env[u]].at ELSE <<>>]
<1>1. PICK k \in iter[t].todo :
         iter' = [iter EXCEPT ![t] = IF k \in DOMAIN heap[iter[t].table].at
                                     THEN [table |-> iter[t].table, todo |-> iter[t].todo \ {k}] ELSE NoIter]
  BY DEF Next_
<1>2. PICK i : i = IF k \in DOMAIN heap[iter[t].table].at
                   THEN [table |-> iter[t].table, todo |-> iter[t].todo \ {k}] ELSE NoIter
  OBVIOUS
<1>3. iter[t] \in [table : Nat, todo : SUBSET Keys] /\ iter[t] # NoIter
  <2>1. iter[t] \in [table : Nat, todo : SUBSET Keys]
    BY DEF Inv, Types
  <2>2. NoIter.todo = {}
    BY DEF NoIter
  <2> QED BY <1>1, <2>1, <2>2
<1>4. \/ i = NoIter
      \/ i = [table |-> iter[t].table, todo |-> iter[t].todo \ {k}]
  BY <1>2
<1>5. /\ i \in [table : Nat, todo : SUBSET Keys]
      /\ i = NoIter \/ (i.table = iter[t].table /\ i.todo \subseteq iter[t].todo)
  BY <1>3, <1>4 DEF NoIter
<1>6. iter' = [iter EXCEPT ![t] = i]
  BY <1>1, <1>2
<1>7. /\ UNCHANGED <<heap, env, given>> /\ dead' \in BOOLEAN
      /\ i = NoIter \/ (i.table \in DOMAIN heap /\ heap[i.table].kind = "table")
      /\ i # NoIter /\ i.table = env[t] => i.todo \subseteq DOMAIN heap[env[t]].at
  BY <1>3, <1>5 DEF Next_, Inv, OtherRefs, RangeFindsValues
<1> QED BY <1>5, <1>6, <1>7, QuietOK

\* and one that ends has none.
LEMMA StopOK ==
    ASSUME Inv, NEW t \in Threads, Stop(t)
    PROVE  Inv' /\ UNCHANGED [u \in Threads |-> IF Has(u) THEN heap[env[u]].at ELSE <<>>]
<1>1. NoIter \in [table : Nat, todo : SUBSET Keys] /\ dead' \in BOOLEAN
  BY DEF NoIter, Stop, Inv, OtherRefs
<1> QED BY <1>1, QuietOK DEF Stop

-----------------------------------------------------------------------------
(***************************************************************************)
(* What can be reached: Reach follows references as often as there are     *)
(* objects, which is often enough.                                         *)
(***************************************************************************)

\* References of the given kinds lead from S into S only.
Closed(S, K) == \A a \in S : Targets(a, K) \subseteq S

\* An object refers to what its elements refer to.
LEMMA TargetsDef ==
    \A a, K, b : b \in Targets(a, K)
                    <=> \E k \in DOMAIN heap[a].at : Element(a, k).k \in K /\ Element(a, k).addr = b
BY DEF Targets, Elements

\* The same in the state after a step.
LEMMA TargetsDefNext ==
    (\A a, K, b : b \in Targets(a, K)
                     <=> \E k \in DOMAIN heap[a].at : Element(a, k).k \in K /\ Element(a, k).addr = b)'
BY TargetsDef, PTL

\* A set that grows by what it leads to, among n numbers, is complete after n rounds: if
\* it is not before, it has a new element in each of them.
LEMMA Saturates ==
    ASSUME NEW n \in Nat, NEW T \in [1..n -> SUBSET (1..n)], NEW w \in [0..n -> SUBSET (1..n)],
           \A k \in 1..n : w[k] = w[k - 1] \cup UNION {T[a] : a \in w[k - 1]}
    PROVE  \A a \in w[n] : T[a] \subseteq w[n]
<1>1. IsFiniteSet(1..n) /\ Cardinality(1..n) = n
  BY FS_Interval
<1>2. \A k \in 0..n : IsFiniteSet(w[k]) /\ Cardinality(w[k]) \in Nat
  BY <1>1, FS_Subset, FS_CardinalityType
<1>3. PICK S : S = {k \in 0..n : \/ \A a \in w[k] : T[a] \subseteq w[k]
                                 \/ Cardinality(w[k]) >= k}
  OBVIOUS
<1>4. 0 \in S
  BY <1>2, <1>3
<1>5. ASSUME NEW k \in 0..(n - 1), k \in S PROVE k + 1 \in S
  <2>1. k + 1 \in 1..n /\ (k + 1) - 1 = k /\ k \in 0..n /\ k + 1 \in 0..n
    OBVIOUS
  <2>2. PICK x : x = w[k]
    OBVIOUS
  <2>3. PICK y : y = w[k + 1]
    OBVIOUS
  <2>4. y = x \cup UNION {T[a] : a \in x}
    BY <2>1, <2>2, <2>3
  <2>5. CASE \A a \in x : T[a] \subseteq x
    <3>1. y = x
      BY <2>4, <2>5
    <3> QED BY <1>3, <2>1, <2>2, <2>3, <2>5, <3>1
  <2>6. CASE ~(\A a \in x : T[a] \subseteq x)
    <3>1. x \subseteq y /\ x # y
      BY <2>4, <2>6
    <3>2. /\ IsFiniteSet(x) /\ IsFiniteSet(y)
          /\ Cardinality(x) \in Nat /\ Cardinality(y) \in Nat
      BY <1>2, <2>1, <2>2, <2>3
    <3>3. Cardinality(x) <= Cardinality(y) /\ Cardinality(x) # Cardinality(y)
      BY <3>1, <3>2, FS_Subset
    <3>4. Cardinality(x) >= k
      BY <1>3, <1>5, <2>2, <2>6
    <3>5. Cardinality(y) >= k + 1
      BY <3>2, <3>3, <3>4
    <3> QED BY <1>3, <2>1, <2>3, <3>5
  <2> QED BY <2>5, <2>6
<1>6. 0..n \subseteq S
  BY <1>4, <1>5, UpTo
<1>7. n \in S /\ n \in 0..n
  BY <1>6
<1>8. CASE Cardinality(w[n]) >= n
  <2>1. w[n] \subseteq 1..n /\ Cardinality(w[n]) \in Nat
    BY <1>2, <1>7
  <2>2. Cardinality(w[n]) <= Cardinality(1..n)
    BY <1>1, <2>1, FS_Subset
  <2>3. Cardinality(w[n]) = Cardinality(1..n)
    BY <1>1, <1>8, <2>1, <2>2
  <2>4. w[n] = 1..n
    BY <1>1, <2>1, <2>3, FS_Subset
  <2> QED BY <2>4
<1> QED BY <1>3, <1>7, <1>8

\* Reach is the end of such a sequence of sets.
LEMMA ReachIsWalk ==
    ASSUME HeapOK, NEW K, NEW from \in SUBSET DOMAIN heap,
           \A a \in DOMAIN heap : Targets(a, K) \subseteq DOMAIN heap
    PROVE  /\ Len(heap) \in Nat /\ DOMAIN heap = 1..Len(heap)
           /\ \E w \in [0..Len(heap) -> SUBSET (1..Len(heap))] :
                 /\ w[0] = from
                 /\ \A k \in 1..Len(heap) :
                       w[k] = w[k - 1] \cup UNION {Targets(a, K) : a \in w[k - 1]}
                 /\ Reach(from, K) = w[Len(heap)]
<1>1. PICK n \in Nat : n = Len(heap) /\ DOMAIN heap = 1..n
  BY DEF HeapOK
<1> DEFINE more(x) == UNION {{a} \cup Targets(a, K) : a \in x}
<1>2. ASSUME NEW x \in SUBSET (1..n) PROVE more(x) \in SUBSET (1..n)
  <2>1. \A a \in x : {a} \cup Targets(a, K) \subseteq 1..n
    BY <1>1
  <2>2. UNION {{a} \cup Targets(a, K) : a \in x} \subseteq 1..n
    BY <2>1, Zenon
  <2> QED BY <2>2
<1>3. PICK g : g = CHOOSE r : r = [k \in 0..n |-> IF k = 0 THEN from ELSE more(r[k - 1])]
  OBVIOUS
<1>4. Reach(from, K) = g[n]
  BY <1>1, <1>3 DEF Reach
<1> HIDE DEF more
<1>5. PICK step : step = [p \in (1..n) \X SUBSET (1..n) |-> more(p[2])]
  OBVIOUS
<1>6. step \in [(1..n) \X SUBSET (1..n) -> SUBSET (1..n)]
  BY <1>2, <1>5
<1>7. PICK f \in [0..n -> SUBSET (1..n)] : Follows(f, n, from, step)
  BY <1>1, <1>6, Recursion
<1>8. ASSUME NEW k \in 1..n PROVE f[k] = more(f[k - 1])
  <2>1. PICK x \in SUBSET (1..n) : x = f[k - 1]
    BY <1>7
  <2>2. f[k] = step[<<k, x>>]
    BY <1>7, <2>1 DEF Follows
  <2>3. step[<<k, x>>] = more(x)
    BY <1>5
  <2> QED BY <2>1, <2>2, <2>3
<1>9. f = [k \in 0..n |-> IF k = 0 THEN from ELSE more(f[k - 1])]
  <2>1. PICK h : h = [k \in 0..n |-> IF k = 0 THEN from ELSE more(f[k - 1])]
    OBVIOUS
  <2>2. ASSUME NEW k \in 0..n PROVE f[k] = h[k]
    <3>1. CASE k = 0
      BY <1>7, <2>1, <3>1 DEF Follows
    <3>2. CASE k # 0
      <4>1. k \in 1..n
        BY <3>2
      <4> QED BY <1>8, <2>1, <4>1
    <3> QED BY <3>1, <3>2
  <2>3. f = h
    BY <1>7, <2>1, <2>2
  <2> QED BY <2>1, <2>3
<1>10. g = [k \in 0..n |-> IF k = 0 THEN from ELSE more(g[k - 1])]
  BY <1>3, <1>9
<1>11. g[0] = from
  BY <1>10
<1>12. ASSUME NEW k \in 1..n PROVE g[k] = more(g[k - 1])
  <2>1. k \in 0..n /\ k # 0
    OBVIOUS
  <2> QED BY <1>10, <2>1
<1>13. PICK S : S = {k \in 0..n : g[k] \in SUBSET (1..n)}
  OBVIOUS
<1>14. 0 \in S
  BY <1>1, <1>11, <1>13
<1>15. ASSUME NEW k \in 0..(n - 1), k \in S PROVE k + 1 \in S
  <2>1. k + 1 \in 1..n /\ (k + 1) - 1 = k /\ g[k] \in SUBSET (1..n)
    BY <1>13, <1>15
  <2>2. g[k + 1] = more(g[k])
    BY <1>12, <2>1
  <2>3. g[k + 1] \in SUBSET (1..n)
    BY <1>2, <2>1, <2>2
  <2> QED BY <1>13, <2>1, <2>3
<1>16. 0..n \subseteq S
  BY <1>14, <1>15, UpTo
<1>17. g \in [0..n -> SUBSET (1..n)]
  <2>1. g = [k \in 0..n |-> g[k]]
    BY <1>10
  <2>2. \A k \in 0..n : g[k] \in SUBSET (1..n)
    BY <1>13, <1>16
  <2> QED BY <2>1, <2>2
<1>18. \A x : more(x) = x \cup UNION {Targets(a, K) : a \in x}
  <2> SUFFICES ASSUME NEW x PROVE UNION {{a} \cup Targets(a, K) : a \in x} = x \cup UNION {Targets(a, K) : a \in x}
    BY DEF more
  <2>1. ASSUME NEW y PROVE y \in UNION {{a} \cup Targets(a, K) : a \in x} <=> y \in x \cup UNION {Targets(a, K) : a \in x}
    OBVIOUS
  <2> QED BY <2>1
<1> QED BY <1>1, <1>4, <1>11, <1>12, <1>17, <1>18

\* Reach is the least set that contains where it starts and where its elements lead.
LEMMA ReachFacts ==
    ASSUME HeapOK, NEW K, NEW from \in SUBSET DOMAIN heap,
           \A a \in DOMAIN heap : Targets(a, K) \subseteq DOMAIN heap
    PROVE  /\ from \subseteq Reach(from, K) /\ Reach(from, K) \subseteq DOMAIN heap
           /\ Closed(Reach(from, K), K)
           /\ \A C : from \subseteq C /\ Closed(C, K) => Reach(from, K) \subseteq C
<1>1. PICK n \in Nat : n = Len(heap) /\ DOMAIN heap = 1..n
  BY ReachIsWalk
<1>2. PICK w \in [0..n -> SUBSET (1..n)] :
         /\ w[0] = from
         /\ \A k \in 1..n : w[k] = w[k - 1] \cup UNION {Targets(a, K) : a \in w[k - 1]}
         /\ Reach(from, K) = w[n]
  <2>1. PICK w \in [0..Len(heap) -> SUBSET (1..Len(heap))] :
           /\ w[0] = from
           /\ \A k \in 1..Len(heap) :
                 w[k] = w[k - 1] \cup UNION {Targets(a, K) : a \in w[k - 1]}
           /\ Reach(from, K) = w[Len(heap)]
    BY ReachIsWalk
  <2> QED BY <1>1, <2>1
<1>3. PICK T : T = [a \in 1..n |-> Targets(a, K)]
  OBVIOUS
<1>4. T \in [1..n -> SUBSET (1..n)]
  BY <1>1, <1>3
<1>5. ASSUME NEW k \in 1..n PROVE w[k] = w[k - 1] \cup UNION {T[a] : a \in w[k - 1]}
  <2>1. PICK x \in SUBSET (1..n) : x = w[k - 1]
    BY <1>2
  <2>2. UNION {T[a] : a \in x} = UNION {Targets(a, K) : a \in x}
    BY <1>3
  <2> QED BY <1>2, <2>1, <2>2
<1>6. \A a \in w[n] : T[a] \subseteq w[n]
  BY <1>2, <1>4, <1>5, Saturates
<1>7. Closed(w[n], K)
  <2>1. w[n] \subseteq 1..n
    BY <1>2
  <2> QED BY <1>3, <1>6, <2>1 DEF Closed
<1>8. ASSUME NEW C, from \subseteq C, Closed(C, K) PROVE w[n] \subseteq C
  <2>1. PICK S : S = {k \in 0..n : w[k] \subseteq C}
    OBVIOUS
  <2>2. 0 \in S
    BY <1>2, <1>8, <2>1
  <2>3. ASSUME NEW k \in 0..(n - 1), k \in S PROVE k + 1 \in S
    <3>1. k + 1 \in 1..n /\ (k + 1) - 1 = k /\ w[k] \subseteq C
      BY <2>1, <2>3
    <3>2. w[k + 1] = w[k] \cup UNION {Targets(a, K) : a \in w[k]}
      BY <1>2, <3>1
    <3>3. w[k + 1] \subseteq C
      BY <1>8, <3>1, <3>2 DEF Closed
    <3> QED BY <2>1, <3>1, <3>3
  <2>4. 0..n \subseteq S
    BY <2>2, <2>3, UpTo
  <2> QED BY <2>1, <2>4
<1>9. from \subseteq w[n]
  <2>1. PICK S : S = {k \in 0..n : from \subseteq w[k]}
    OBVIOUS
  <2>2. 0 \in S
    BY <1>2, <2>1
  <2>3. ASSUME NEW k \in 0..(n - 1), k \in S PROVE k + 1 \in S
    <3>1. k + 1 \in 1..n /\ (k + 1) - 1 = k /\ from \subseteq w[k]
      BY <2>1, <2>3
    <3>2. w[k + 1] = w[k] \cup UNION {Targets(a, K) : a \in w[k]}
      BY <1>2, <3>1
    <3> QED BY <2>1, <3>1, <3>2
  <2>4. 0..n \subseteq S
    BY <2>2, <2>3, UpTo
  <2> QED BY <2>1, <2>4
<1> QED BY <1>1, <1>2, <1>7, <1>8, <1>9

-----------------------------------------------------------------------------
(***************************************************************************)
(* Territories.  What a goroutine can get at lies in a territory of its    *)
(* own or is shared: no reference leads out of either.  A table that is    *)
(* ranged over stays in its territory when the key it was found at is      *)
(* gone.                                                                   *)
(***************************************************************************)

Divides(own) ==
    /\ own \in [Threads -> SUBSET DOMAIN heap]
    /\ shared \subseteq DOMAIN heap
    /\ Closed(shared, Refs)
    /\ \A t \in Threads : /\ shared \subseteq own[t]
                          /\ Closed(own[t], Refs)
                          /\ env[t] # 0 => env[t] \in own[t]
                          /\ iter[t].table # 0 => iter[t].table \in own[t]
    /\ \A t, u \in Threads : t # u => own[t] \cap own[u] \subseteq shared

\* There is a division of the objects into territories.
Divided == \E own : Divides(own)

\* References lead to objects.
LEMMA TargetsOK ==
    ASSUME HeapOK, NEW a \in DOMAIN heap
    PROVE  Targets(a, Refs) \subseteq DOMAIN heap
<1> SUFFICES ASSUME NEW k \in DOMAIN heap[a].at, Element(a, k).k \in Refs
             PROVE  Element(a, k).addr \in DOMAIN heap
  BY TargetsDef
<1>1. ValueOK(Element(a, k))
  BY ElementOK
<1> QED BY <1>1 DEF ValueOK, Tables, Refs

\* An object that does not change has the references it had.
LEMMA SameTargets ==
    ASSUME NEW b, b \in DOMAIN heap, b \in DOMAIN heap', heap'[b] = heap[b]
    PROVE  Targets(b, Refs)' = Targets(b, Refs)
<1>1. b \in Tables' <=> b \in Tables
  BY DEF Tables
<1>2. \A k : Element(b, k)' = Element(b, k)
  BY <1>1 DEF Element
<1>3. \A c : c \in Targets(b, Refs)' <=> c \in Targets(b, Refs)
  BY <1>2, TargetsDef, TargetsDefNext
<1> QED BY <1>3

\* An object that changes has references it had, and those of its new elements.
LEMMA ChangedTargets ==
    ASSUME NEW a, a \in DOMAIN heap, a \in DOMAIN heap', heap'[a].kind = heap[a].kind, NEW X,
           \A k \in DOMAIN heap'[a].at :
              \/ k \in DOMAIN heap[a].at /\ heap'[a].at[k] = heap[a].at[k]
              \/ Element(a, k)'.k \in Refs => Element(a, k)'.addr \in X
    PROVE  Targets(a, Refs)' \subseteq Targets(a, Refs) \cup X
<1>1. a \in Tables' <=> a \in Tables
  BY DEF Tables
<1>2. \A k : heap'[a].at[k] = heap[a].at[k] => Element(a, k)' = Element(a, k)
  BY <1>1 DEF Element
<1>3. ASSUME NEW c \in Targets(a, Refs)' PROVE c \in Targets(a, Refs) \cup X
  <2>1. PICK k \in DOMAIN heap'[a].at : Element(a, k)'.k \in Refs /\ Element(a, k)'.addr = c
    BY <1>3, TargetsDefNext
  <2> QED BY <1>2, <2>1, TargetsDef
<1> QED BY <1>3

\* An object without elements has none.
LEMMA NoTargets ==
    ASSUME NEW a, DOMAIN heap'[a].at = {}
    PROVE  Targets(a, Refs)' = {}
BY TargetsDefNext

\* What a program of goroutine t finds is in its territory.
LEMMA FoundIn ==
    ASSUME Inv, NEW own, Divides(own), NEW t \in Threads, Has(t), NEW x \in Found(t), x.k \in Refs
    PROVE  x.addr \in own[t]
<1>1. env[t] \in own[t] /\ env[t] \in Tables /\ own[t] \subseteq DOMAIN heap
  BY DEF Inv, OwnTables, Tables, Has, Divides
<1>2. ASSUME NEW a \in own[t], NEW k \in DOMAIN heap[a].at, Element(a, k).k \in Refs
      PROVE  Element(a, k).addr \in own[t]
  <2>1. Element(a, k).addr \in Targets(a, Refs)
    BY <1>2, TargetsDef
  <2> QED BY <2>1 DEF Divides, Closed
<1>3. \A k \in DOMAIN heap[env[t]].at : heap[env[t]].at[k].val = Element(env[t], k)
  BY <1>1 DEF Element
<1>4. PICK path \in Paths : x \in At(t, path)
  BY DEF Found, Has
<1>5. CASE path = <<>>
  <2>1. x = EnvOf(env[t])
    BY <1>4, <1>5 DEF At
  <2> QED BY <1>1, <2>1 DEF EnvOf
<1>6. CASE path # <<>>
  <2> DEFINE X == {heap[env[t]].at[k].val : k \in {path[1]} \cap DOMAIN heap[env[t]].at}
  <2>1. \A y \in X : y.k \in Refs => y.addr \in own[t]
    BY <1>1, <1>2, <1>3
  <2>2. CASE Len(path) = 1
    BY <1>4, <1>6, <2>1, <2>2 DEF At
  <2>3. CASE Len(path) # 1
    <3>1. PICK y \in X : /\ y.k \in {"ref", "env"}
                         /\ x \in {Element(y.addr, k) : k \in {path[2]} \cap DOMAIN heap[y.addr].at}
      BY <1>4, <1>6, <2>3 DEF At
    <3>2. y.addr \in own[t]
      BY <2>1, <3>1 DEF Refs
    <3> QED BY <1>2, <3>1, <3>2
  <2> QED BY <2>2, <2>3
<1> QED BY <1>5, <1>6

\* Object a of t's territory gets references to X, new objects or objects of t's; if a is
\* shared, so is from now on G, where all of that leads.
LEMMA LinkDivides ==
    ASSUME NEW own, Divides(own), NEW t \in Threads, NEW a \in own[t],
           DOMAIN heap \subseteq DOMAIN heap',
           NEW G \in SUBSET DOMAIN heap', NEW X \in SUBSET G,
           X \cap DOMAIN heap \subseteq own[t],
           \A b \in G \cap DOMAIN heap : Targets(b, Refs) \subseteq G,
           shared' = IF a \in shared THEN shared \cup G ELSE shared,
           Targets(a, Refs)' \subseteq Targets(a, Refs) \cup X,
           \A b \in DOMAIN heap : b # a => Targets(b, Refs)' \subseteq Targets(b, Refs),
           \A b \in DOMAIN heap' \ DOMAIN heap : Targets(b, Refs)' = {},
           env' = env, iter' = iter
    PROVE  Divided'
<1>1. PICK two : two = [u \in Threads |-> own[u] \cup shared' \cup (IF u = t THEN X ELSE {})]
  OBVIOUS
<1>2. \A u \in Threads : two[u] = own[u] \cup shared' \cup (IF u = t THEN X ELSE {})
  BY <1>1
<1>3. /\ \A u \in Threads : /\ own[u] \subseteq DOMAIN heap /\ shared \subseteq own[u]
                            /\ \A b \in own[u] : Targets(b, Refs) \subseteq own[u]
      /\ shared \subseteq DOMAIN heap
      /\ \A b \in shared : Targets(b, Refs) \subseteq shared
      /\ \A u, v \in Threads : u # v => own[u] \cap own[v] \subseteq shared
  BY DEF Divides, Closed
<1>4. shared' \subseteq DOMAIN heap'
  BY <1>3
<1>5. two \in [Threads -> SUBSET DOMAIN heap']
  BY <1>1, <1>3, <1>4
<1>6. ASSUME NEW b \in shared' PROVE Targets(b, Refs)' \subseteq shared'
  <2>1. CASE a \in shared
    <3>1. CASE b \in DOMAIN heap
      <4>1. Targets(b, Refs) \subseteq shared \cup G
        BY <1>3, <1>6, <2>1, <3>1
      <4>2. Targets(b, Refs)' \subseteq Targets(b, Refs) \cup X
        BY <3>1
      <4> QED BY <2>1, <4>1, <4>2
    <3>2. CASE b \notin DOMAIN heap
      BY <1>4, <1>6, <3>2
    <3> QED BY <3>1, <3>2
  <2>2. CASE a \notin shared
    <3>1. b \in DOMAIN heap /\ b # a /\ b \in shared
      BY <1>3, <1>6, <2>2
    <3> QED BY <1>3, <2>2, <3>1
  <2> QED BY <2>1, <2>2
<1>7. ASSUME NEW u \in Threads, NEW b \in two[u] PROVE Targets(b, Refs)' \subseteq two[u]
  <2>1. CASE b \in shared'
    BY <1>2, <1>6, <2>1
  <2>2. CASE b \in own[u]
    <3>1. b \in DOMAIN heap /\ Targets(b, Refs) \subseteq own[u]
      BY <1>3, <2>2
    <3>2. CASE b # a
      BY <1>2, <3>1, <3>2
    <3>3. CASE b = a /\ u = t
      BY <1>2, <3>1, <3>3
    <3>4. CASE b = a /\ u # t
      <4>1. a \in shared
        BY <1>3, <2>2, <3>4
      <4>2. X \subseteq shared'
        BY <4>1
      <4> QED BY <1>2, <3>1, <3>4, <4>2
    <3> QED BY <3>2, <3>3, <3>4
  <2>3. CASE u = t /\ b \in X /\ b \notin DOMAIN heap
    BY <2>3
  <2> QED BY <1>2, <1>7, <2>1, <2>2, <2>3
<1>8. ASSUME NEW u \in Threads, NEW v \in Threads, u # v PROVE two[u] \cap two[v] \subseteq shared'
  <2> SUFFICES ASSUME NEW b \in two[u], b \in two[v], b \notin shared'
               PROVE  FALSE
    OBVIOUS
  <2>1. CASE b \in DOMAIN heap
    <3>1. b \in own[u] /\ b \in own[v]
      BY <1>2, <2>1
    <3> QED BY <1>3, <1>8, <3>1
  <2>2. CASE b \notin DOMAIN heap
    <3>1. b \notin own[u] /\ b \notin own[v]
      BY <1>3, <2>2
    <3> QED BY <1>2, <1>8, <3>1
  <2> QED BY <2>1, <2>2
<1>9. \A u \in Threads : /\ shared' \subseteq two[u]
                         /\ env'[u] # 0 => env'[u] \in two[u]
                         /\ iter'[u].table # 0 => iter'[u].table \in two[u]
  BY <1>2 DEF Divides
<1>10. Divides(two)'
  BY <1>4, <1>5, <1>6, <1>7, <1>8, <1>9 DEF Divides, Closed
<1> QED BY <1>10 DEF Divided

\* The same when a new element x of a is the only new reference.
LEMMA SpreadDivides ==
    ASSUME Inv, NEW own, Divides(own), NEW t \in Threads, NEW a \in own[t],
           NEW x, x.k \in Refs => x.addr \in own[t], Spread(a, x),
           DOMAIN heap \subseteq DOMAIN heap',
           \A X : (x.k \in Refs => x.addr \in X)
                     => Targets(a, Refs)' \subseteq Targets(a, Refs) \cup X,
           \A b \in DOMAIN heap : b # a => Targets(b, Refs)' \subseteq Targets(b, Refs),
           \A b \in DOMAIN heap' \ DOMAIN heap : Targets(b, Refs)' = {},
           env' = env, iter' = iter
    PROVE  Divided'
<1>1. CASE x.k \in Refs
  <2>1. PICK X : X = {x.addr}
    OBVIOUS
  <2>2. X \subseteq own[t] /\ own[t] \subseteq DOMAIN heap
    BY <1>1, <2>1 DEF Divides
  <2>3. PICK G : G = Reach(X, Refs)
    OBVIOUS
  <2>4. X \subseteq G /\ G \subseteq DOMAIN heap /\ Closed(G, Refs)
    <3>1. HeapOK /\ X \in SUBSET DOMAIN heap
      BY <2>2 DEF Inv
    <3>2. \A b \in DOMAIN heap : Targets(b, Refs) \subseteq DOMAIN heap
      BY <3>1, TargetsOK
    <3> QED BY <2>3, <3>1, <3>2, ReachFacts
  <2>5. /\ G \in SUBSET DOMAIN heap' /\ X \in SUBSET G /\ X \cap DOMAIN heap \subseteq own[t]
        /\ \A b \in G \cap DOMAIN heap : Targets(b, Refs) \subseteq G
    BY <2>2, <2>4 DEF Closed
  <2>6. shared' = IF a \in shared THEN shared \cup G ELSE shared
    BY <1>1, <2>1, <2>3 DEF Spread
  <2>7. Targets(a, Refs)' \subseteq Targets(a, Refs) \cup X
    BY <2>1
  <2> QED BY <2>5, <2>6, <2>7, LinkDivides
<1>2. CASE x.k \notin Refs
  <2>1. PICK G : G = {}
    OBVIOUS
  <2>2. /\ G \in SUBSET DOMAIN heap' /\ G \in SUBSET G /\ G \cap DOMAIN heap \subseteq own[t]
        /\ \A b \in G \cap DOMAIN heap : Targets(b, Refs) \subseteq G
    BY <2>1
  <2>3. shared' = IF a \in shared THEN shared \cup G ELSE shared
    BY <1>2, <2>1 DEF Spread
  <2>4. Targets(a, Refs)' \subseteq Targets(a, Refs) \cup G
    BY <1>2
  <2> QED BY <2>2, <2>3, <2>4, LinkDivides
<1> QED BY <1>1, <1>2

\* Binding a key of t's table adds the references of the bound cell, no others.
LEMMA RebindLinks ==
    ASSUME Inv, NEW t \in Threads, Has(t), NEW k \in Keys, NEW c \in Cells, Rebinds(t, k, c),
           NEW a, a = env[t], NEW X, c.val.k \in Refs => c.val.addr \in X
    PROVE  /\ DOMAIN heap \subseteq DOMAIN heap'
           /\ Targets(a, Refs)' \subseteq Targets(a, Refs) \cup X
           /\ \A b \in DOMAIN heap : b # a => Targets(b, Refs)' \subseteq Targets(b, Refs)
           /\ \A b \in DOMAIN heap' \ DOMAIN heap : Targets(b, Refs)' = {}
<1>2. a \in DOMAIN heap /\ a \in DOMAIN heap' /\ heap[a].kind = "table" /\ heap'[a].kind = "table"
  BY DEF Inv, OwnTables, Has, Rebinds
<1>3. heap'[a].at = Bound(heap[a].at, k, c)
  BY DEF Rebinds
<1>4. ASSUME NEW j \in DOMAIN heap'[a].at
      PROVE  \/ j \in DOMAIN heap[a].at /\ heap'[a].at[j] = heap[a].at[j]
             \/ Element(a, j)'.k \in Refs => Element(a, j)'.addr \in X
  <2>1. CASE j = k
    <3>1. heap'[a].at[j] = c
      BY <1>3, <2>1 DEF Bound
    <3>2. Element(a, j)' = c.val
      BY <1>2, <3>1 DEF Element, Tables
    <3> QED BY <3>2
  <2>2. CASE j # k
    BY <1>3, <1>4, <2>2 DEF Bound
  <2> QED BY <2>1, <2>2
<1>5. Targets(a, Refs)' \subseteq Targets(a, Refs) \cup X
  BY <1>2, <1>4, ChangedTargets
<1>7. \A b \in DOMAIN heap : b # a => Targets(b, Refs)' = Targets(b, Refs)
  BY SameTargets DEF Rebinds
<1>8. \A b \in DOMAIN heap' \ DOMAIN heap : Targets(b, Refs)' = {}
  BY EmptyBindings, NoTargets DEF Rebinds
<1> QED BY <1>5, <1>7, <1>8 DEF Rebinds

\* SetNew and StoreNew: a key of t's table is bound to a new object.
LEMMA NewDivides ==
    ASSUME Inv, NEW own, Divides(own), NEW t \in Threads, Has(t), NEW k \in Keys,
           NEW c \in Cells, Rebinds(t, k, c), c.val = Ref(Len(heap) + 1),
           SpreadNew(env[t]), env' = env, iter' = iter
    PROVE  Divided'
<1>1. PICK a : a = env[t]
  OBVIOUS
<1>2. PICK n : n = Len(heap) + 1
  OBVIOUS
<1>3. a \in own[t] /\ c.val.k = "ref" /\ c.val.addr = n /\ n \notin DOMAIN heap
  BY <1>1, <1>2 DEF Divides, Has, Ref, Inv, HeapOK
<1>4. PICK X : X = {n}
  OBVIOUS
<1>5. c.val.addr \in X
  BY <1>3, <1>4
<1>6. /\ DOMAIN heap \subseteq DOMAIN heap'
      /\ Targets(a, Refs)' \subseteq Targets(a, Refs) \cup X
      /\ \A b \in DOMAIN heap : b # a => Targets(b, Refs)' \subseteq Targets(b, Refs)
      /\ \A b \in DOMAIN heap' \ DOMAIN heap : Targets(b, Refs)' = {}
  BY <1>1, <1>5, RebindLinks
<1>7. n \in DOMAIN heap'
  BY <1>3 DEF Rebinds, ValueOK
<1>8. /\ X \in SUBSET DOMAIN heap' /\ X \in SUBSET X /\ X \cap DOMAIN heap \subseteq own[t]
      /\ \A b \in X \cap DOMAIN heap : Targets(b, Refs) \subseteq X
  BY <1>3, <1>4, <1>7
<1>9. shared' = IF a \in shared THEN shared \cup X ELSE shared
  BY <1>1, <1>2, <1>4 DEF SpreadNew
<1> QED BY <1>3, <1>6, <1>8, <1>9, LinkDivides

\* SetNumber: the new cell refers to nothing.
LEMMA NumberDivides ==
    ASSUME Inv, NEW own, Divides(own), NEW t \in Threads, Has(t), NEW k \in Keys,
           NEW c \in Cells, Rebinds(t, k, c), c.val.k = "int", UNCHANGED <<env, iter, shared>>
    PROVE  Divided'
<1>1. PICK a : a = env[t]
  OBVIOUS
<1>2. a \in own[t] /\ c.val.k \notin Refs
  BY <1>1 DEF Divides, Has, Refs
<1>3. Spread(a, c.val)
  BY <1>2 DEF Spread
<1>4. \A X : /\ DOMAIN heap \subseteq DOMAIN heap'
             /\ Targets(a, Refs)' \subseteq Targets(a, Refs) \cup X
             /\ \A b \in DOMAIN heap : b # a => Targets(b, Refs)' \subseteq Targets(b, Refs)
             /\ \A b \in DOMAIN heap' \ DOMAIN heap : Targets(b, Refs)' = {}
  BY <1>1, <1>2, RebindLinks
<1> QED BY <1>2, <1>3, <1>4, SpreadDivides

\* store: the value is one that the program found, or refers to nothing.
LEMMA StoreDivides ==
    ASSUME Inv, NEW own, Divides(own), NEW t \in Threads, Has(t), NEW k \in Keys,
           NEW x \in Operands(t), NEW c \in Cells, Rebinds(t, k, c), c.val = x,
           Spread(env[t], x), env' = env, iter' = iter
    PROVE  Divided'
<1>1. PICK a : a = env[t]
  OBVIOUS
<1>2. a \in own[t] /\ Spread(a, x)
  BY <1>1 DEF Divides, Has
<1>3. x.k \in Refs => x.addr \in own[t]
  BY FoundIn DEF Operands, Null, Type, Refs
<1>4. ASSUME NEW X, x.k \in Refs => x.addr \in X
      PROVE  Targets(a, Refs)' \subseteq Targets(a, Refs) \cup X
  BY <1>1, <1>4, RebindLinks
<1>5. PICK Y : Y = {x.addr}
  OBVIOUS
<1>6. /\ DOMAIN heap \subseteq DOMAIN heap'
      /\ \A b \in DOMAIN heap : b # a => Targets(b, Refs)' \subseteq Targets(b, Refs)
      /\ \A b \in DOMAIN heap' \ DOMAIN heap : Targets(b, Refs)' = {}
  <2>1. c.val.k \in Refs => c.val.addr \in Y
    BY <1>5
  <2> QED BY <1>1, <2>1, RebindLinks
<1> QED BY <1>2, <1>3, <1>4, <1>6, SpreadDivides

\* Set(key, nil): references go.
LEMMA DeleteDivides ==
    ASSUME Inv, NEW own, Divides(own), NEW t \in Threads, NEW k \in Keys, Delete(t, k)
    PROVE  Divided'
<1>1. PICK a : a = env[t]
  OBVIOUS
<1>2. a \in own[t] /\ a \in DOMAIN heap /\ heap[a].kind = "table"
  BY <1>1 DEF Divides, Has, Delete, Inv, OwnTables
<1>3. /\ DOMAIN heap' = DOMAIN heap /\ heap'[a].kind = "table"
      /\ \A j \in DOMAIN heap'[a].at :
            j \in DOMAIN heap[a].at /\ heap'[a].at[j] = heap[a].at[j]
      /\ \A b \in DOMAIN heap : b # a => heap'[b] = heap[b]
  BY <1>1, DeleteOK
<1>4. PICK none : none = Null
  OBVIOUS
<1>5. none.k \notin Refs /\ Spread(a, none)
  BY <1>4 DEF Null, Refs, Spread, Delete
<1>6. \A X : Targets(a, Refs)' \subseteq Targets(a, Refs) \cup X
  BY <1>2, <1>3, ChangedTargets
<1>7. \A b \in DOMAIN heap : b # a => Targets(b, Refs)' = Targets(b, Refs)
  BY <1>3, SameTargets
<1>8. env' = env /\ iter' = iter
  BY DEF Delete
<1> QED BY <1>2, <1>3, <1>5, <1>6, <1>7, <1>8, SpreadDivides

\* set_index: both the object and the value are found by the program.
LEMMA SetIndexDivides ==
    ASSUME Inv, NEW own, Divides(own), NEW t \in Threads, NEW a \in Objects(t), NEW k \in Keys,
           NEW x \in Operands(t), SetIndex(t, a, k, x)
    PROVE  Divided'
<1>1. Has(t) /\ Spread(a, x) /\ env' = env /\ iter' = iter
  BY DEF SetIndex
<1>2. a \in own[t]
  BY <1>1, FoundIn DEF Objects, Refs
<1>3. x.k \in Refs => x.addr \in own[t]
  BY <1>1, FoundIn DEF Operands, Null, Type, Refs
<1>4. PICK y : y = AsElement(heap[a].kind, x)
  OBVIOUS
<1>5. /\ a \in DOMAIN heap /\ heap[a].kind # "table" /\ DOMAIN heap' = DOMAIN heap
      /\ heap'[a].kind = heap[a].kind
      /\ heap'[a].at = Bound(heap[a].at, k, y)
      /\ \A b \in DOMAIN heap : b # a => heap'[b] = heap[b]
  BY <1>4, SetIndexOK
<1>6. y.k \in Refs => y = x
  BY <1>4 DEF AsElement, Int_, Name, Refs
<1>7. ASSUME NEW X, x.k \in Refs => x.addr \in X
      PROVE  Targets(a, Refs)' \subseteq Targets(a, Refs) \cup X
  <2>1. ASSUME NEW j \in DOMAIN heap'[a].at
        PROVE  \/ j \in DOMAIN heap[a].at /\ heap'[a].at[j] = heap[a].at[j]
               \/ Element(a, j)'.k \in Refs => Element(a, j)'.addr \in X
    <3>1. CASE j = k
      <4>1. heap'[a].at[j] = y
        BY <1>5, <3>1 DEF Bound
      <4>2. Element(a, j)' = y
        BY <1>5, <4>1 DEF Element, Tables
      <4> QED BY <1>6, <1>7, <4>2
    <3>2. CASE j # k
      BY <1>5, <2>1, <3>2 DEF Bound
    <3> QED BY <3>1, <3>2
  <2> QED BY <1>5, <2>1, ChangedTargets
<1>8. \A b \in DOMAIN heap : b # a => Targets(b, Refs)' = Targets(b, Refs)
  BY <1>5, SameTargets
<1> QED BY <1>1, <1>2, <1>3, <1>5, <1>7, <1>8, SpreadDivides

\* Nothing changes but ranges, which stay in the territory of their goroutine.
LEMMA QuietDivides ==
    ASSUME NEW own, Divides(own), UNCHANGED <<heap, env, shared>>,
           \A t \in Threads : iter'[t].table # 0 => iter'[t].table \in own[t]
    PROVE  Divided'
<1>1. \A b \in DOMAIN heap : Targets(b, Refs)' = Targets(b, Refs)
  BY SameTargets
<1>2. Divides(own)'
  BY <1>1 DEF Divides, Closed
<1> QED BY <1>2 DEF Divided

\* Goroutine u, which ranges over nothing, gets a new table that refers only to what is
\* shared from now on.
LEMMA NewTableDivides ==
    ASSUME NEW own, Divides(own), NEW u \in Threads, iter[u].table = 0, env \in [Threads -> Nat],
           NEW n, n \notin DOMAIN heap, DOMAIN heap' = DOMAIN heap \cup {n},
           \A b \in DOMAIN heap : heap'[b] = heap[b],
           env' = [env EXCEPT ![u] = n], iter' = iter,
           NEW G \in SUBSET DOMAIN heap, Closed(G, Refs), shared' = shared \cup G,
           Targets(n, Refs)' \subseteq shared'
    PROVE  Divided'
<1>1. PICK two : two = [v \in Threads |-> IF v = u THEN shared' \cup {n} ELSE own[v] \cup shared']
  OBVIOUS
<1>2. /\ two[u] = shared' \cup {n}
      /\ \A v \in Threads : v # u => two[v] = own[v] \cup shared'
  BY <1>1
<1>3. /\ \A v \in Threads : /\ own[v] \subseteq DOMAIN heap /\ shared \subseteq own[v]
                            /\ \A b \in own[v] : Targets(b, Refs) \subseteq own[v]
      /\ shared \subseteq DOMAIN heap
      /\ \A b \in shared : Targets(b, Refs) \subseteq shared
      /\ \A v, w \in Threads : v # w => own[v] \cap own[w] \subseteq shared
  BY DEF Divides, Closed
<1>4. \A b \in DOMAIN heap : Targets(b, Refs)' = Targets(b, Refs)
  BY SameTargets
<1>5. shared' \subseteq DOMAIN heap
  BY <1>3
<1>6. two \in [Threads -> SUBSET DOMAIN heap']
  BY <1>1, <1>3, <1>5
<1>7. \A b \in shared' : Targets(b, Refs)' \subseteq shared'
  BY <1>3, <1>4, <1>5 DEF Closed
<1>8. ASSUME NEW v \in Threads, NEW b \in two[v] PROVE Targets(b, Refs)' \subseteq two[v]
  <2>1. CASE v = u
    BY <1>2, <1>7, <1>8, <2>1
  <2>2. CASE v # u
    <3>1. CASE b \in shared'
      BY <1>2, <1>7, <2>2, <3>1
    <3>2. CASE b \in own[v]
      BY <1>2, <1>3, <1>4, <2>2, <3>2
    <3> QED BY <1>2, <1>8, <2>2, <3>1, <3>2
  <2> QED BY <2>1, <2>2
<1>9. ASSUME NEW v \in Threads, NEW w \in Threads, v # w PROVE two[v] \cap two[w] \subseteq shared'
  <2>1. \A x \in Threads : n \notin own[x]
    BY <1>3
  <2> QED BY <1>2, <1>3, <1>9, <2>1
<1>10. ASSUME NEW v \in Threads
       PROVE  /\ shared' \subseteq two[v]
              /\ env'[v] # 0 => env'[v] \in two[v]
              /\ iter'[v].table # 0 => iter'[v].table \in two[v]
  <2>1. CASE v = u
    BY <1>2, <2>1
  <2>2. CASE v # u
    BY <1>2, <2>2 DEF Divides
  <2> QED BY <2>1, <2>2
<1>11. Divides(two)'
  BY <1>5, <1>6, <1>7, <1>8, <1>9, <1>10 DEF Divides, Closed
<1> QED BY <1>11 DEF Divided

\* The objects that there are stay as they are.
LEMMA NewTableAdds ==
    ASSUME HeapOK, NEW u \in Threads, NEW at \in Bindings(Cells), NewTable(u, at)
    PROVE  \E n : /\ n \notin DOMAIN heap /\ DOMAIN heap' = DOMAIN heap \cup {n}
                  /\ \A b \in DOMAIN heap : heap'[b] = heap[b]
                  /\ heap'[n].kind = "table" /\ heap'[n].at = at
                  /\ env' = [env EXCEPT ![u] = n]
<1>1. PICK n : n = Len(heap) + 1
  OBVIOUS
<1>2. PICK o : o = [kind |-> "table", at |-> at]
  OBVIOUS
<1>3. o \in Objects_ /\ o.kind = "table" /\ o.at = at
  BY <1>2 DEF Objects_
<1>4. heap' = Append(heap, o) /\ env' = [env EXCEPT ![u] = n]
  BY <1>1, <1>2 DEF NewTable
<1>5. heap \in Seq(Objects_)
  BY DEF HeapOK
<1>6. /\ DOMAIN Append(heap, o) = DOMAIN heap \cup {Len(heap) + 1}
      /\ Append(heap, o)[Len(heap) + 1] = o
      /\ \A b \in DOMAIN heap : Append(heap, o)[b] = heap[b]
      /\ Len(heap) + 1 \notin DOMAIN heap
  BY <1>3, <1>5, Appended
<1> QED BY <1>1, <1>3, <1>4, <1>6

\* NewEnv: an empty table.
LEMMA NewEnvDivides ==
    ASSUME Inv, NEW own, Divides(own), NEW t \in Threads, NewEnv(t)
    PROVE  Divided'
<1>1. PICK n : /\ n \notin DOMAIN heap /\ DOMAIN heap' = DOMAIN heap \cup {n}
               /\ \A b \in DOMAIN heap : heap'[b] = heap[b]
               /\ heap'[n].kind = "table" /\ heap'[n].at = <<>>
               /\ env' = [env EXCEPT ![t] = n]
  <2>1. HeapOK /\ <<>> \in Bindings(Cells) /\ NewTable(t, <<>>)
    BY EmptyBindings DEF NewEnv, Inv
  <2> QED BY <2>1, NewTableAdds
<1>2. iter[t].table = 0 /\ iter' = iter /\ env \in [Threads -> Nat]
  <2>1. iter[t] = NoIter /\ iter' = iter /\ env \in [Threads -> Nat]
    BY DEF NewEnv, Idle, Inv, Types
  <2>2. NoIter.table = 0
    BY DEF NoIter
  <2> QED BY <2>1, <2>2
<1>3. PICK G : G = {}
  OBVIOUS
<1>4. G \in SUBSET DOMAIN heap /\ Closed(G, Refs) /\ shared' = shared \cup G
  BY <1>3 DEF NewEnv, Closed
<1>5. Targets(n, Refs)' \subseteq shared'
  BY <1>1, EmptyBindings, NoTargets
<1> QED BY <1>1, <1>2, <1>4, <1>5, NewTableDivides

\* Clone: what the table refers to is shared from now on.
LEMMA CloneDivides ==
    ASSUME Inv, NEW own, Divides(own), NEW t \in Threads, NEW u \in Threads, Clone(t, u)
    PROVE  Divided'
<1>1. PICK n : /\ n \notin DOMAIN heap /\ DOMAIN heap' = DOMAIN heap \cup {n}
               /\ \A b \in DOMAIN heap : heap'[b] = heap[b]
               /\ heap'[n].kind = "table" /\ heap'[n].at = heap[env[t]].at
               /\ env' = [env EXCEPT ![u] = n]
  <2>1. heap[env[t]].at \in Bindings(Cells)
    BY DEF Clone, Has, Inv, OwnTables, HeapOK, Objects_
  <2>2. HeapOK /\ NewTable(u, heap[env[t]].at)
    BY DEF Clone, Inv
  <2> QED BY <2>1, <2>2, NewTableAdds
<1>2. iter[u].table = 0 /\ iter' = iter /\ env \in [Threads -> Nat]
  <2>1. iter[u] = NoIter /\ iter' = iter /\ env \in [Threads -> Nat]
    BY DEF Clone, Idle, Inv, Types
  <2>2. NoIter.table = 0
    BY DEF NoIter
  <2> QED BY <2>1, <2>2
<1>3. PICK a : a = env[t]
  OBVIOUS
<1>4. a \in DOMAIN heap /\ heap[a].kind = "table" /\ HeapOK
  BY <1>3 DEF Clone, Has, Inv, OwnTables
<1>5. PICK T : T = Targets(a, Refs)
  OBVIOUS
<1>6. T \in SUBSET DOMAIN heap
  BY <1>4, <1>5, TargetsOK
<1>7. PICK G : G = Reach(T, Refs)
  OBVIOUS
<1>8. T \subseteq G /\ G \subseteq DOMAIN heap /\ Closed(G, Refs)
  <2>1. \A b \in DOMAIN heap : Targets(b, Refs) \subseteq DOMAIN heap
    BY <1>4, TargetsOK
  <2> QED BY <1>4, <1>6, <1>7, <2>1, ReachFacts
<1>9. shared' = shared \cup G
  BY <1>3, <1>5, <1>7 DEF Clone
<1>10. Targets(n, Refs)' \subseteq T
  <2> SUFFICES ASSUME NEW c \in Targets(n, Refs)' PROVE c \in T
    OBVIOUS
  <2>1. PICK j \in DOMAIN heap'[n].at : Element(n, j)'.k \in Refs /\ Element(n, j)'.addr = c
    BY TargetsDefNext
  <2>2. heap'[n].at = heap[a].at
    BY <1>1, <1>3
  <2>3. Element(n, j)' = heap[a].at[j].val
    BY <1>1, <2>2 DEF Element, Tables
  <2>4. Element(a, j) = heap[a].at[j].val
    BY <1>4 DEF Element, Tables
  <2>5. j \in DOMAIN heap[a].at /\ Element(a, j).k \in Refs /\ Element(a, j).addr = c
    BY <2>1, <2>2, <2>3, <2>4
  <2> QED BY <1>5, <2>5, TargetsDef
<1> QED BY <1>1, <1>2, <1>8, <1>9, <1>10, NewTableDivides

\* The territories of the first state: the first table, and nothing.
LEMMA InitDivides == ASSUME Init PROVE Divided
<1>1. PICK own : own = [t \in Threads |-> IF t = First THEN {1} ELSE {}]
  OBVIOUS
<1>2. DOMAIN heap = {1} /\ DOMAIN heap[1].at = {}
  BY EmptyBindings DEF Init
<1>3. Targets(1, Refs) = {}
  BY <1>2, TargetsDef
<1>4. own \in [Threads -> SUBSET DOMAIN heap]
  BY <1>1, <1>2
<1>5. \A t \in Threads : own[t] \subseteq {1}
  BY <1>1
<1>6. Closed(shared, Refs) /\ \A t \in Threads : Closed(own[t], Refs)
  BY <1>3, <1>5 DEF Closed, Init
<1>7. \A t \in Threads : iter[t].table = 0 /\ (env[t] # 0 => env[t] \in own[t])
  BY <1>1 DEF Init, NoIter
<1>8. \A t, u \in Threads : t # u => own[t] \cap own[u] \subseteq shared
  BY <1>1
<1>9. shared = {}
  BY DEF Init
<1>10. Divides(own)
  BY <1>4, <1>6, <1>7, <1>8, <1>9 DEF Divides
<1> QED BY <1>10 DEF Divided

-----------------------------------------------------------------------------
(***************************************************************************)
(* Theorems.                                                               *)
(***************************************************************************)

LEMMA InitOK == ASSUME Init PROVE Inv /\ Stores!Init
<1>1. PICK o : o = [kind |-> "table", at |-> <<>>]
  OBVIOUS
<1>2. o.kind = "table" /\ o.at = <<>> /\ o \in Objects_
  BY <1>1, EmptyBindings DEF Objects_
<1>3. heap = <<o>> /\ heap \in Seq(Objects_) /\ DOMAIN heap = {1} /\ heap[1] = o
  BY <1>1, <1>2 DEF Init
<1>4. ObjectOK(o)
  BY <1>2, EmptyBindings DEF ObjectOK
<1>5. HeapOK
  BY <1>3, <1>4 DEF HeapOK
<1>6. Types
  BY EmptyBindings DEF Types, Init, NoIter
<1>7. OwnTables /\ OtherRefs /\ RangeFindsValues
  BY <1>2, <1>3 DEF Init, OwnTables, OtherRefs, RangeFindsValues
<1>8. GivenIsBound
  BY EmptyBindings DEF Init, GivenIsBound
<1>9. Stores!Init
  <2>1. \A t \in Threads : Has(t) => env[t] = 1
    BY DEF Init, Has
  <2> QED BY <1>2, <1>3, <2>1 DEF Stores!Init
<1> QED BY <1>5, <1>6, <1>7, <1>8, <1>9 DEF Inv

\* Every step keeps the invariant, and is a step of the stores or leaves them alone.
LEMMA StepOK ==
    ASSUME Inv, [Next]_vars
    PROVE  Inv' /\ [Stores!Next]_([t \in Threads |-> IF Has(t) THEN heap[env[t]].at ELSE <<>>])
<1> DEFINE stores == [t \in Threads |-> IF Has(t) THEN heap[env[t]].at ELSE <<>>]
<1>1. SUFFICES Inv' /\ (Stores!Next \/ UNCHANGED stores)
  OBVIOUS
<1>2. ASSUME NEW t \in Threads, NewEnv(t) PROVE Inv' /\ Stores!Next
  BY <1>2, NewEnvOK DEF Stores!Next
<1>3. ASSUME NEW t \in Threads, NEW u \in Threads, Clone(t, u) PROVE Inv' /\ Stores!Next
  BY <1>3, CloneOK DEF Stores!Next
<1>4. ASSUME NEW t \in Threads, NEW k \in Keys, NEW g \in GoInts, SetNumber(t, k, g[1], g[2])
      PROVE  Inv' /\ Stores!Next
  BY <1>4, SetNumberOK DEF Stores!Next
<1>5. ASSUME NEW t \in Threads, NEW k \in Keys, NEW kind \in {"ints", "any", "fixed"},
             SetNew(t, k, kind)
      PROVE  Inv' /\ Stores!Next
  BY <1>5, SetNewOK DEF Stores!Next
<1>6. ASSUME NEW t \in Threads, NEW k \in Keys, Delete(t, k) PROVE Inv' /\ Stores!Next
  BY <1>6, DeleteOK DEF Stores!Next
<1>7. ASSUME NEW t \in Threads, NEW k \in Keys, NEW x \in Operands(t), Store(t, k, x)
      PROVE  Inv' /\ (Stores!Next \/ UNCHANGED stores)
  <2>1. CASE Inv' /\ Stores!Bind(t, k)
    BY <2>1 DEF Stores!Next
  <2>2. CASE UNCHANGED <<heap, env, iter, given>> /\ dead' \in BOOLEAN
    BY <2>2, StillOK
  <2> QED BY <1>7, <2>1, <2>2, StoreOK
<1>8. ASSUME NEW t \in Threads, NEW k \in Keys, StoreNew(t, k) PROVE Inv' /\ Stores!Next
  BY <1>8, StoreNewOK DEF Stores!Next
<1>9. ASSUME NEW t \in Threads, NEW a \in Objects(t), NEW k \in Keys, NEW x \in Operands(t),
             SetIndex(t, a, k, x)
      PROVE  Inv' /\ UNCHANGED stores
  BY <1>9, SetIndexOK
<1>10. ASSUME NEW t \in Threads, NEW x \in Found(t), Look(t, x) PROVE Inv' /\ UNCHANGED stores
  <2>1. UNCHANGED <<heap, env, iter, given>> /\ dead' \in BOOLEAN
    BY <1>10 DEF Look, Inv, OtherRefs
  <2> QED BY <2>1, StillOK
<1>11. ASSUME NEW t \in Rangers, NEW x \in Found(t), Iterate(t, x)
       PROVE  Inv' /\ UNCHANGED stores
  BY <1>11, RangersAssumption, IterateOK
<1>12. ASSUME NEW t \in Threads, Next_(t) PROVE Inv' /\ UNCHANGED stores
  BY <1>12, NextOK
<1>13. ASSUME NEW t \in Threads, Stop(t) PROVE Inv' /\ UNCHANGED stores
  BY <1>13, StopOK
<1>14. ASSUME NEW t \in Threads, NEW u \in Threads, Clash(t, u) PROVE Inv' /\ UNCHANGED stores
  <2>1. UNCHANGED <<heap, env, iter, given>> /\ dead' \in BOOLEAN
    BY <1>14 DEF Clash
  <2> QED BY <2>1, StillOK
<1>15. CASE UNCHANGED vars
  <2>1. UNCHANGED <<heap, env, iter, given, dead>>
    BY <1>15 DEF vars
  <2>2. HeapOK'
    BY <2>1 DEF Inv, HeapOK, ObjectOK, ValueOK, Tables
  <2>3. Types' /\ OwnTables' /\ OtherRefs'
    BY <2>1 DEF Inv, Types, OwnTables, OtherRefs
  <2>4. GivenIsBound'
    BY <2>1 DEF Inv, GivenIsBound, IsGiven
  <2>5. RangeFindsValues'
    BY <2>1 DEF Inv, RangeFindsValues
  <2> QED BY <2>1, <2>2, <2>3, <2>4, <2>5 DEF Inv, Has
<1> HIDE DEF stores
<1>16. CASE FromGo
  BY <1>2, <1>3, <1>4, <1>5, <1>6, <1>16 DEF FromGo
<1>17. CASE InEval
  BY <1>7, <1>8, <1>9, <1>10, <1>11, <1>12, <1>13, <1>17 DEF InEval
<1> QED BY <1>14, <1>15, <1>16, <1>17 DEF Next, Over

\* A range goes on or ends.
LEMMA RangeDivides ==
    ASSUME Inv, NEW own, Divides(own), NEW t \in Threads, NEW i, iter' = [iter EXCEPT ![t] = i],
           i.table # 0 => i.table \in own[t], UNCHANGED <<heap, env, shared>>
    PROVE  Divided'
<1>1. iter'[t] = i /\ \A u \in Threads : u # t => iter'[u] = iter[u]
  BY DEF Inv, Types
<1>2. \A u \in Threads : iter'[u].table # 0 => iter'[u].table \in own[u]
  BY <1>1 DEF Divides
<1> QED BY <1>2, QuietDivides

\* Every step keeps goroutines to their territories.
LEMMA StepDivides ==
    ASSUME Inv, NEW own, Divides(own), [Next]_vars
    PROVE  Divided'
<1>1. \A t \in Threads : iter[t].table # 0 => iter[t].table \in own[t]
  BY DEF Divides
<1>2. CASE UNCHANGED <<heap, env, iter, shared>>
  BY <1>1, <1>2, QuietDivides
<1>3. ASSUME NEW t \in Threads, NEW k \in Keys, NEW g \in GoInts, SetNumber(t, k, g[1], g[2]) PROVE Divided'
  BY <1>3, SetNumberOK, NumberDivides DEF SetNumber
<1>4. ASSUME NEW t \in Threads, NEW k \in Keys, NEW kind \in {"ints", "any", "fixed"},
             SetNew(t, k, kind)
      PROVE  Divided'
  BY <1>4, SetNewOK, NewDivides DEF SetNew
<1>5. ASSUME NEW t \in Threads, NEW k \in Keys, StoreNew(t, k) PROVE Divided'
  BY <1>5, StoreNewOK, NewDivides DEF StoreNew
<1>6. ASSUME NEW t \in Threads, NEW k \in Keys, NEW x \in Operands(t), Store(t, k, x)
      PROVE  Divided'
  <2>1. Has(t) /\ UNCHANGED <<env, iter>>
    BY <1>6 DEF Store
  <2>2. CASE /\ Spread(env[t], x)
             /\ \E c \in Cells : Rebinds(t, k, c) /\ c.val = x
    BY <2>1, <2>2, StoreDivides
  <2>3. CASE UNCHANGED <<heap, env, iter, shared>>
    BY <1>2, <2>3
  <2> QED BY <1>6, <2>2, <2>3, StoreOK
<1>7. ASSUME NEW t \in Threads, NEW x \in Found(t), Iterate(t, x) PROVE Divided'
  <2>1. UNCHANGED <<heap, env, shared>> /\ Has(t) /\ x.k = "env"
    BY <1>7 DEF Iterate
  <2>2. x.addr \in own[t]
    BY <2>1, FoundIn DEF Refs
  <2>3. PICK i : i = [table |-> x.addr, todo |-> DOMAIN heap[x.addr].at]
    OBVIOUS
  <2>4. iter' = [iter EXCEPT ![t] = i] /\ i.table = x.addr
    BY <1>7, <2>3 DEF Iterate
  <2> QED BY <2>1, <2>2, <2>4, RangeDivides
<1>9. NoIter.table = 0
  BY DEF NoIter
<1>10. ASSUME NEW t \in Threads, Next_(t) PROVE Divided'
  <2>1. PICK k \in iter[t].todo :
           iter' = [iter EXCEPT ![t] = IF k \in DOMAIN heap[iter[t].table].at
                                       THEN [table |-> iter[t].table, todo |-> iter[t].todo \ {k}]
                                       ELSE NoIter]
    BY <1>10 DEF Next_
  <2>2. PICK i : i = IF k \in DOMAIN heap[iter[t].table].at
                     THEN [table |-> iter[t].table, todo |-> iter[t].todo \ {k}] ELSE NoIter
    OBVIOUS
  <2>3. i.table # 0 => i.table \in own[t]
    BY <1>1, <1>9, <2>2
  <2>5. iter' = [iter EXCEPT ![t] = i]
    BY <2>1, <2>2
  <2>4. UNCHANGED <<heap, env, shared>>
    BY <1>10 DEF Next_
  <2> QED BY <2>3, <2>4, <2>5, RangeDivides
<1>11. ASSUME NEW t \in Threads, Stop(t) PROVE Divided'
  BY <1>9, <1>11, RangeDivides DEF Stop
<1>12. CASE FromGo
  BY <1>3, <1>4, <1>12, NewEnvDivides, CloneDivides, DeleteDivides DEF FromGo
<1>13. ASSUME NEW t \in Threads, NEW x \in Found(t), Look(t, x) PROVE Divided'
  BY <1>2, <1>13 DEF Look
<1>14. ASSUME NEW t \in Threads, NEW a \in Objects(t), NEW k \in Keys, NEW x \in Operands(t),
              SetIndex(t, a, k, x)
       PROVE  Divided'
  BY <1>14, SetIndexDivides
<1>15. CASE InEval
  BY <1>5, <1>6, <1>7, <1>10, <1>11, <1>13, <1>14, <1>15, RangersAssumption DEF InEval
<1>16. ASSUME NEW t \in Threads, NEW u \in Threads, Clash(t, u) PROVE Divided'
  BY <1>2, <1>16 DEF Clash
<1>17. CASE UNCHANGED vars
  BY <1>2, <1>17 DEF vars
<1> QED BY <1>12, <1>15, <1>16, <1>17 DEF Next, Over

\* The invariant, for any goroutines, keys, numbers and calls (env.go, and store,
\* set_index and range in eval.go).
THEOREM Invariance == Spec => []Inv
<1>1. Init => Inv
  BY InitOK
<1>2. Inv /\ [Next]_vars => Inv'
  BY StepOK
<1> QED BY <1>1, <1>2, PTL DEF Spec

\* Whatever is stored, set or cloned, every goroutine stays in a territory of its own,
\* but for what is shared (Clone in env.go, store and set_index in eval.go).
THEOREM Territories == Spec => []Divided
<1>1. Init => Divided
  BY InitDivides
<1>2. Inv /\ Divided /\ [Next]_vars => Divided'
  BY StepDivides DEF Divided
<1> QED BY <1>1, <1>2, Invariance, PTL DEF Spec

\* Everything referred to exists and is of the right kind, and no two goroutines have
\* the same table, whatever they clone.
THEOREM TypeCorrect == Spec => []TypeOK
<1>1. Inv /\ Divided => TypeOK
  <2> SUFFICES ASSUME Inv, Divided PROVE TypeOK
    OBVIOUS
  <2>1. ASSUME NEW a \in DOMAIN heap
        PROVE  /\ heap[a].kind \in Kinds
               /\ DOMAIN heap[a].at \subseteq Keys
               /\ \A x \in Elements(a) : ValueOK(x)
               /\ heap[a].kind = "ints" => \A x \in Elements(a) : x.k = "int"
               /\ heap[a].kind = "fixed" => heap[a].at = <<>>
    <3>1. PICK o : o = heap[a]
      OBVIOUS
    <3>2. o \in Objects_ /\ ObjectOK(o)
      BY <3>1 DEF Inv, HeapOK
    <3>3. o.kind \in Kinds
      BY <3>2 DEF Objects_, Kinds
    <3>4. DOMAIN o.at \subseteq Keys
      BY <3>2, BindingsDef DEF Objects_
    <3>5. \A k \in DOMAIN o.at : /\ o.kind = "table" => Element(a, k) = o.at[k].val
                                 /\ o.kind # "table" => Element(a, k) = o.at[k]
      BY <3>1 DEF Element, Tables
    <3> QED BY <3>1, <3>2, <3>3, <3>4, <3>5 DEF Elements, ObjectOK
  <2>2. \A t \in Threads : /\ env[t] # 0 => env[t] \in Tables
                           /\ iter[t] = NoIter \/ iter[t].table \in Tables
    BY DEF Inv, OwnTables, OtherRefs, Tables
  <2>3. shared \subseteq DOMAIN heap
    BY DEF Divided, Divides
  <2> QED BY <2>1, <2>2, <2>3 DEF Inv, OwnTables, OtherRefs, TypeOK
<1> QED BY <1>1, Invariance, Territories, PTL

\* Set and Get in env.go: what Go gave comes back with its type, number or identity,
\* whatever has been cloned, stored and deleted since, and "This should not happen"
\* happens for the ints beyond int32 and nothing else.
THEOREM GetIsFaithful == Spec => []SetComesBack
<1>1. Inv => SetComesBack
  <2> SUFFICES ASSUME Inv, NEW t \in Threads, NEW k \in DOMAIN given[t]
               PROVE  /\ k \in DOMAIN heap[env[t]].at
                      /\ Got(env[t], k) = {IF given[t][k].orig = "int" /\ given[t][k].val.n \notin Int32
                                           THEN Panic ELSE given[t][k]}
    BY DEF SetComesBack
  <2>1. PICK c : c = heap[env[t]].at[k]
    OBVIOUS
  <2>2. k \in DOMAIN heap[env[t]].at /\ c = given[t][k] /\ IsGiven(c)
    BY <2>1 DEF Inv, GivenIsBound
  <2>3. Got(env[t], k) = {IF Converts(c.val, c.orig) THEN c ELSE Panic}
    BY <2>1, <2>2 DEF Got, IsGiven
  <2>4. CASE c.val.k = "int"
    <3>1. Converts(c.val, c.orig) <=> ~(c.orig = "int" /\ c.val.n \notin Int32)
      BY <2>4 DEF Converts, Type
    <3> QED BY <2>2, <2>3, <3>1
  <2>5. CASE c.val.k # "int"
    <3>1. Converts(c.val, c.orig) /\ c.orig # "int"
      BY <2>2, <2>5 DEF Converts, Type, IsGiven, Kinds
    <3> QED BY <2>2, <2>3, <3>1
  <2> QED BY <2>4, <2>5
<1> QED BY <1>1, Invariance, PTL

\* celEnvIterator: a range over the environment of its own evaluation finds a value
\* for every key it began with.
THEOREM RangeComplete == Spec => []RangeFindsValues
<1>1. Inv => RangeFindsValues
  BY DEF Inv
<1> QED BY <1>1, Invariance, PTL

\* Two goroutines that have an environment each, made with NewEnv or Clone (env.go), can
\* write to a Go map that the other uses only if it was shared by a clone.
THEOREM RacesOnlyShared == Spec => []RacesAreShared
<1>1. Inv /\ Divided => RacesAreShared
  <2> SUFFICES ASSUME Inv, NEW own, Divides(own), NEW t \in Threads, NEW u \in Threads,
                      Has(t), Has(u), t # u
               PROVE  Writable(t) \cap (Readable(u) \cup Writable(u)) \subseteq shared
    BY DEF Divided, RacesAreShared
  <2>1. ASSUME NEW v \in Threads, Has(v) PROVE env[v] \in own[v] /\ Objects(v) \subseteq own[v]
    BY <2>1, FoundIn DEF Divides, Has, Objects, Refs
  <2>2. ASSUME NEW v \in Threads, Has(v) PROVE Writable(v) \subseteq own[v]
    BY <2>1, <2>2 DEF Writable
  <2>3. PICK F : F = {x.addr : x \in {x \in Found(u) : x.k = "env"}}
    OBVIOUS
  <2>4. F \subseteq own[u] /\ own[u] \subseteq DOMAIN heap
    BY <2>3, FoundIn DEF Refs, Divides
  <2>5. \A a \in DOMAIN heap : Targets(a, {"env"}) \subseteq Targets(a, Refs)
    BY TargetsDef DEF Refs
  <2>6. Closed(own[u], {"env"})
    BY <2>4, <2>5 DEF Divides, Closed
  <2>7. Reach(F, {"env"}) \subseteq own[u]
    <3>1. HeapOK /\ F \in SUBSET DOMAIN heap
      BY <2>4 DEF Inv
    <3>2. \A a \in DOMAIN heap : Targets(a, {"env"}) \subseteq DOMAIN heap
      BY <2>5, <3>1, TargetsOK
    <3> QED BY <2>4, <2>6, <3>1, <3>2, ReachFacts
  <2>8. {iter[u].table} \ {0} \subseteq own[u]
    BY DEF Divides
  <2>9. Readable(u) \subseteq own[u]
    BY <2>1, <2>3, <2>7, <2>8 DEF Readable
  <2> QED BY <2>2, <2>9 DEF Divides
<1> QED BY <1>1, Invariance, Territories, PTL

\* Environments are separate stores: every call changes one binding of one of them or
\* makes one, and nothing done to a clone or its original is seen in the other.
THEOREM Implementation == Spec => ImplementsStores
<1>1. Init => Stores!Init
  BY InitOK
<1>2. Inv /\ [Next]_vars => [Stores!Next]_([t \in Threads |-> IF Has(t) THEN heap[env[t]].at ELSE <<>>])
  BY StepOK
<1> QED BY <1>1, <1>2, Invariance, PTL DEF Spec, ImplementsStores, Stores!Spec
=============================================================================
